---- MODULE Spec2Model ----
(***************************************************************************)
(* Name-resolution engine of T30_Mazad: the player dictionary              *)
(* (load_players), the normaliser, the n-gram generator, the exact/fuzzy   *)
(* matcher with its shared search cache (process_pass) and the rule-based  *)
(* condition checker (RuleBasedConditionChecker.check).                    *)
(*                                                                         *)
(* Text is modelled as a sequence of one-character strings, so that        *)
(* lower-casing, regex scanning, splitting, stripping and substring tests  *)
(* are computed character by character as Python computes them.            *)
(* career_score values are kept in tenths (115.0 is 1150) so that the      *)
(* 0.3 / 0.2 / 1.5 factors of compute_career_score stay integral.         *)
(***************************************************************************)
EXTENDS Integers, Sequences, FiniteSets, TLC

\* ------------------------------------------------------------------------
\* Characters and Python string primitives
\* ------------------------------------------------------------------------
LowerChars == <<"a","b","c","d","e","f","g","h","i","j","k","l","m","n","o","p","q","r","s","t","u","v","w","x","y","z">>
UpperChars == <<"A","B","C","D","E","F","G","H","I","J","K","L","M","N","O","P","Q","R","S","T","U","V","W","X","Y","Z">>
DigitChars == <<"0","1","2","3","4","5","6","7","8","9">>

\* code-point order of the characters a normalized key can contain
CodeOrder == <<" ">> \o DigitChars \o LowerChars

None == <<"<None>">>

Range(s) == {s[i] : i \in 1..Len(s)}

Min(a, b) == IF a < b THEN a ELSE b

Max(a, b) == IF a > b THEN a ELSE b

\* Python truthiness of an optional string or list
Truthy(x) == x # None /\ x # <<>>

\* x or y
Or(x, y) == IF Truthy(x) THEN x ELSE y

\* str.lower() on one character
LowerChar(c) ==
  IF \E i \in 1..Len(UpperChars) : UpperChars[i] = c
  THEN LowerChars[CHOOSE i \in 1..Len(UpperChars) : UpperChars[i] = c]
  ELSE c

\* str.lower()
lower(s) == [i \in 1..Len(s) |-> LowerChar(s[i])]

Whitespace == {" "}

RECURSIVE lstrip(_, _)
lstrip(s, cs) == IF s # <<>> /\ Head(s) \in cs THEN lstrip(Tail(s), cs) ELSE s

RECURSIVE rstrip(_, _)
rstrip(s, cs) ==
  IF s # <<>> /\ s[Len(s)] \in cs THEN rstrip(SubSeq(s, 1, Len(s) - 1), cs) ELSE s

\* str.strip(chars)
strip_chars(s, cs) == rstrip(lstrip(s, cs), cs)

\* str.strip()
strip(s) == strip_chars(s, Whitespace)

\* maximal runs of characters c with (c \in cs) = member, left to right
RECURSIVE Runs(_, _, _, _)
Runs(s, cs, member, cur) ==
  IF s = <<>> THEN (IF cur = <<>> THEN <<>> ELSE <<cur>>)
  ELSE IF (Head(s) \in cs) = member
       THEN Runs(Tail(s), cs, member, Append(cur, Head(s)))
       ELSE (IF cur = <<>> THEN <<>> ELSE <<cur>>) \o Runs(Tail(s), cs, member, <<>>)

\* str.split() with no argument
split(s) == Runs(s, Whitespace, FALSE, <<>>)

\* sep.join(parts)
RECURSIVE join(_, _)
join(parts, sep) ==
  IF parts = <<>> THEN <<>>
  ELSE IF Len(parts) = 1 THEN parts[1]
  ELSE parts[1] \o sep \o join(Tail(parts), sep)

\* sub in s
Contains(sub, s) ==
  \E i \in 0..(Len(s) - Len(sub)) : SubSeq(s, i + 1, i + Len(sub)) = sub

\* x in list
InList(x, list) == \E i \in 1..Len(list) : list[i] = x

\* list[:n] for n >= 0
Slice(list, n) == SubSeq(list, 1, Min(n, Len(list)))

CharCode(c) == CHOOSE i \in 1..Len(CodeOrder) : CodeOrder[i] = c

\* a < b on strings over CodeOrder
StrLess(a, b) ==
  \E i \in 1..(Min(Len(a), Len(b)) + 1) :
     /\ \A j \in 1..(i - 1) : a[j] = b[j]
     /\ \/ i > Len(a) /\ i <= Len(b)
        \/ i <= Len(a) /\ i <= Len(b) /\ CharCode(a[i]) < CharCode(b[i])

\* sorted(set of strings)
sorted(S) ==
  [r \in 1..Cardinality(S) |->
     CHOOSE x \in S : Cardinality({y \in S : StrLess(y, x)}) = r - 1]

\* dict helpers
EmptyDict == [k \in {} |-> <<>>]

DictPut(d, k, v) == [x \in (DOMAIN d) \cup {k} |-> IF x = k THEN v ELSE d[x]]

\* d.get(k, [])
DictGet(d, k) == IF k \in DOMAIN d THEN d[k] ELSE <<>>

\* ------------------------------------------------------------------------
\* normalize
\* ------------------------------------------------------------------------
WordChars == Range(LowerChars) \cup Range(DigitChars)

\* _WORD_RE.findall(text)
findall(text) == Runs(text, WordChars, TRUE, <<>>)

\* str.swapcase() on one character
SwapChar(c) ==
  IF \E i \in 1..Len(LowerChars) : LowerChars[i] = c
  THEN UpperChars[CHOOSE i \in 1..Len(LowerChars) : LowerChars[i] = c]
  ELSE LowerChar(c)

\* mutant of normalize: the case is swapped instead of lowered
normalizeSwapCase(text) ==
  strip(join(findall([i \in 1..Len(text) |-> SwapChar(text[i])]), <<" ">>))

normalize(text) == strip(join(findall(lower(text)), <<" ">>))

\* ------------------------------------------------------------------------
\* compute_career_score (tenths of a point)
\* ------------------------------------------------------------------------
LEAGUE_WEIGHTS ==
  { <<<<"e","n","g"," ","p","r","e","m","i","e","r"," ","l","e","a","g","u","e">>, 100>>,
    <<<<"p","r","e","m","i","e","r"," ","l","e","a","g","u","e">>, 100>>,
    <<<<"e","n","g","l","i","s","h"," ","p","r","e","m","i","e","r"," ","l","e","a","g","u","e">>, 100>>,
    <<<<"g","b","1">>, 100>>,
    <<<<"e","s"," ","l","a"," ","l","i","g","a">>, 95>>,
    <<<<"l","a"," ","l","i","g","a">>, 95>>,
    <<<<"e","s","1">>, 95>>,
    <<<<"d","e"," ","b","u","n","d","e","s","l","i","g","a">>, 90>>,
    <<<<"b","u","n","d","e","s","l","i","g","a">>, 90>>,
    <<<<"l","1">>, 90>>,
    <<<<"i","t"," ","s","e","r","i","e"," ","a">>, 88>>,
    <<<<"s","e","r","i","e"," ","a">>, 88>>,
    <<<<"i","t","1">>, 88>>,
    <<<<"f","r"," ","l","i","g","u","e"," ","1">>, 85>>,
    <<<<"l","i","g","u","e"," ","1">>, 85>>,
    <<<<"f","r","1">>, 85>>,
    <<<<"e","r","e","d","i","v","i","s","i","e">>, 70>>,
    <<<<"n","l","1">>, 70>>,
    <<<<"p","r","i","m","e","i","r","a"," ","l","i","g","a">>, 70>>,
    <<<<"p","t","1">>, 70>>,
    <<<<"s","c","o","t","t","i","s","h"," ","p","r","e","m","i","e","r","s","h","i","p">>, 60>>,
    <<<<"c","h","a","m","p","i","o","n","s","h","i","p">>, 55>>,
    <<<<"e","n","g"," ","c","h","a","m","p","i","o","n","s","h","i","p">>, 55>>,
    <<<<"m","l","s">>, 50>>,
    <<<<"c","h","a","m","p","i","o","n","s"," ","l","e","a","g","u","e">>, 120>>,
    <<<<"u","c","l">>, 120>>,
    <<<<"e","u","r","o","p","a"," ","l","e","a","g","u","e">>, 80>>,
    <<<<"w","o","r","l","d"," ","c","u","p">>, 150>>,
    <<<<"e","u","r","o">>, 130>> }
CLUB_WEIGHTS ==
  { <<<<"m","a","n","c","h","e","s","t","e","r"," ","c","i","t","y">>, 95>>,
    <<<<"m","a","n","c","h","e","s","t","e","r"," ","c","i","t","y"," ","f","o","o","t","b","a","l","l"," ","c","l","u","b">>, 95>>,
    <<<<"l","i","v","e","r","p","o","o","l">>, 95>>,
    <<<<"l","i","v","e","r","p","o","o","l"," ","f","c">>, 95>>,
    <<<<"a","r","s","e","n","a","l">>, 90>>,
    <<<<"a","r","s","e","n","a","l"," ","f","c">>, 90>>,
    <<<<"c","h","e","l","s","e","a">>, 88>>,
    <<<<"c","h","e","l","s","e","a"," ","f","c">>, 88>>,
    <<<<"m","a","n","c","h","e","s","t","e","r"," ","u","n","i","t","e","d">>, 88>>,
    <<<<"m","a","n","c","h","e","s","t","e","r"," ","u","n","i","t","e","d"," ","f","o","o","t","b","a","l","l"," ","c","l","u","b">>, 88>>,
    <<<<"t","o","t","t","e","n","h","a","m">>, 80>>,
    <<<<"t","o","t","t","e","n","h","a","m"," ","h","o","t","s","p","u","r">>, 80>>,
    <<<<"r","e","a","l"," ","m","a","d","r","i","d">>, 98>>,
    <<<<"r","e","a","l"," ","m","a","d","r","i","d"," ","c","l","u","b"," ","d","e"," ","f","ú","t","b","o","l">>, 98>>,
    <<<<"b","a","r","c","e","l","o","n","a">>, 95>>,
    <<<<"f","c"," ","b","a","r","c","e","l","o","n","a">>, 95>>,
    <<<<"a","t","l","e","t","i","c","o"," ","m","a","d","r","i","d">>, 85>>,
    <<<<"b","a","y","e","r","n"," ","m","u","n","i","c","h">>, 95>>,
    <<<<"f","c"," ","b","a","y","e","r","n"," ","m","ü","n","c","h","e","n">>, 95>>,
    <<<<"b","o","r","u","s","s","i","a"," ","d","o","r","t","m","u","n","d">>, 82>>,
    <<<<"j","u","v","e","n","t","u","s">>, 88>>,
    <<<<"i","n","t","e","r"," ","m","i","l","a","n">>, 85>>,
    <<<<"i","n","t","e","r">>, 85>>,
    <<<<"a","c"," ","m","i","l","a","n">>, 85>>,
    <<<<"m","i","l","a","n">>, 85>>,
    <<<<"p","a","r","i","s"," ","s","a","i","n","t","-","g","e","r","m","a","i","n">>, 90>>,
    <<<<"p","s","g">>, 90>> }

Weight(table, key, default) ==
  IF \E p \in table : p[1] = key
  THEN (CHOOSE p \in table : p[1] = key)[2]
  ELSE default

RECURSIVE SumWeights(_, _, _)
SumWeights(list, table, default) ==
  IF list = <<>> THEN 0
  ELSE Weight(table, lower(Head(list)), default) + SumWeights(Tail(list), table, default)

\* min(25, math.log10(minutes + 1) * 8), for the minutes values of the model
MinutesTerm(minutes) ==
  IF minutes = 9 THEN 80
  ELSE IF minutes = 99 THEN 160
  ELSE IF minutes = 999 THEN 240
  ELSE 250

compute_career_score(player) ==
  LET current_club == lower(Or(player.club, <<>>))
      clubs == Or(player.clubs, <<>>)
      current_league == lower(Or(player.league, <<>>))
      leagues == Or(player.leagues, <<>>)
      minutes == player.minutes_played
      sources == Or(player.sources, <<>>)
  IN  10 * Weight(CLUB_WEIGHTS, current_club, 30)
      + 3 * SumWeights(clubs, CLUB_WEIGHTS, 20)
      + 10 * Weight(LEAGUE_WEIGHTS, current_league, 20)
      + 2 * SumWeights(leagues, LEAGUE_WEIGHTS, 15)
      + (IF minutes > 0 THEN MinutesTerm(minutes) ELSE 0)
      + 15 * player.goals + 10 * player.assists
      + 50 * Len(sources)
      + (IF InList(<<"w","o","r","l","d","c","u","p">>, sources) THEN 300 ELSE 0)

\* ------------------------------------------------------------------------
\* Player dataset lines (the JSONL file read by load_players)
\* ------------------------------------------------------------------------
PlayerObj(name, full_name, aliases, club, goals, sources) ==
  [name |-> name, full_name |-> full_name, aliases |-> aliases,
   club |-> club, current_club |-> None, clubs |-> <<>>,
   league |-> None, leagues |-> <<>>, minutes_played |-> 0,
   goals |-> goals, assists |-> 0, sources |-> sources,
   nationality |-> None, position |-> None]

\* {"name": "David Silva", "club": "Manchester City"}
P_david == PlayerObj(<<"D","a","v","i","d"," ","S","i","l","v","a">>, None, <<>>, <<"M","a","n","c","h","e","s","t","e","r"," ","C","i","t","y">>, 0, <<>>)

\* {"name": "Bernardo Silva"}
P_bernardo == PlayerObj(<<"B","e","r","n","a","r","d","o"," ","S","i","l","v","a">>, None, <<>>, None, 0, <<>>)

\* {"name": "Messi", "full_name": "MESSI", "aliases": ["Leo"], "club": "Barcelona", "goals": 2}
P_messi == PlayerObj(<<"M","e","s","s","i">>, <<"M","E","S","S","I">>, <<<<"L","e","o">>>>, <<"B","a","r","c","e","l","o","n","a">>, 2, <<>>)

\* {"full_name": "Nathan Ake", "sources": ["worldcup"]}
P_ake == PlayerObj(None, <<"N","a","t","h","a","n"," ","A","k","e">>, <<>>, None, 0, <<<<"w","o","r","l","d","c","u","p">>>>)

\* {"name": "--", "aliases": ["Silva"]}: the canonical name has no [a-z0-9] run
P_dash == PlayerObj(<<"-","-">>, None, <<<<"S","i","l","v","a">>>>, None, 0, <<>>)

\* {"club": "Barcelona"}: neither name nor full_name
P_noname == PlayerObj(None, None, <<>>, <<"B","a","r","c","e","l","o","n","a">>, 0, <<>>)

BlankLine == [kind |-> "blank", obj |-> None]

\* a line json.loads rejects with JSONDecodeError
BadJsonLine == [kind |-> "badjson", obj |-> None]

\* a line json.loads accepts whose value is not an object, such as [1, 2]
NonObjectLine == [kind |-> "value", obj |-> None]

ObjectLine(o) == [kind |-> "object", obj |-> o]

JsonLines ==
  {BlankLine, BadJsonLine, NonObjectLine, ObjectLine(P_david), ObjectLine(P_bernardo),
   ObjectLine(P_messi), ObjectLine(P_ake), ObjectLine(P_dash), ObjectLine(P_noname)}

\* ------------------------------------------------------------------------
\* load_players
\* ------------------------------------------------------------------------
\* obj.get("name") or obj.get("full_name")
CanonicalName(obj) == Or(obj.name, obj.full_name)

RECURSIVE AddAliases(_, _)
AddAliases(names, aliases) ==
  IF aliases = <<>> THEN names
  ELSE IF Truthy(Head(aliases)) /\ ~InList(Head(aliases), names)
       THEN AddAliases(Append(names, Head(aliases)), Tail(aliases))
       ELSE AddAliases(names, Tail(aliases))

\* the name variants collected for one record
NameVariants(obj) ==
  LET name == CanonicalName(obj)
      n1 == <<name>>
      n2 == IF Truthy(obj.full_name) /\ ~InList(obj.full_name, n1)
            THEN Append(n1, obj.full_name) ELSE n1
      parts == split(name)
      n3 == IF Len(parts) > 1 THEN Append(n2, parts[Len(parts)]) ELSE n2
  IN  AddAliases(n3, Or(obj.aliases, <<>>))

\* players_by_name.setdefault(key, []).append(obj)
SetDefaultAppend(d, key, obj) == DictPut(d, key, Append(DictGet(d, key), obj))

RECURSIVE IndexNames(_, _, _)
IndexNames(pbn, names, obj) ==
  IF names = <<>> THEN pbn
  ELSE LET key == normalize(Head(names))
       IN  IF key = <<>> THEN IndexNames(pbn, Tail(names), obj)
           ELSE IndexNames(SetDefaultAppend(pbn, key, obj), Tail(names), obj)

\* the object of line i once obj["_career_score"] is set; id is the object's identity
LoadedObj(obj, i) ==
  [f \in (DOMAIN obj) \cup {"id", "career_score"} |->
     IF f = "id" THEN i
     ELSE IF f = "career_score" THEN compute_career_score(obj)
     ELSE obj[f]]

\* mutant of LoadLines: a record is kept only when it has "name"
RECURSIVE LoadLinesNameOnly(_, _, _)
LoadLinesNameOnly(pbn, lines, i) ==
  IF i > Len(lines) THEN pbn
  ELSE IF lines[i].kind # "object" THEN LoadLinesNameOnly(pbn, lines, i + 1)
  ELSE IF ~Truthy(lines[i].obj.name) THEN LoadLinesNameOnly(pbn, lines, i + 1)
  ELSE LoadLinesNameOnly(IndexNames(pbn, NameVariants(lines[i].obj),
                                    LoadedObj(lines[i].obj, i)),
                         lines, i + 1)

RECURSIVE LoadLines(_, _, _)
LoadLines(pbn, lines, i) ==
  IF i > Len(lines) THEN pbn
  ELSE IF lines[i].kind # "object" THEN LoadLines(pbn, lines, i + 1)
  ELSE IF ~Truthy(CanonicalName(lines[i].obj)) THEN LoadLines(pbn, lines, i + 1)
  ELSE LoadLines(IndexNames(pbn, NameVariants(lines[i].obj), LoadedObj(lines[i].obj, i)),
                 lines, i + 1)

\* mutant of SortEntries: the lists are left in file order
SortEntriesOmitted(entries) == entries

\* entries.sort(key=lambda p: p.get("_career_score", 0.0), reverse=True), a stable sort
SortEntries(entries) ==
  LET n == Len(entries)
      Before(j, i) == \/ entries[j].career_score > entries[i].career_score
                      \/ entries[j].career_score = entries[i].career_score /\ j < i
  IN  [r \in 1..n |->
         entries[CHOOSE i \in 1..n : Cardinality({j \in 1..n : Before(j, i)}) = r - 1]]



\* obj.get(...) on a value that is not a dict raises AttributeError, which
\* load_players does not catch
Raises(lines) == \E i \in 1..Len(lines) : lines[i].kind = "value"

\* raised: the call ended in an exception and returned nothing
load_players(lines) ==
  IF Raises(lines)
  THEN [raised |-> TRUE, players_by_name |-> EmptyDict, all_names |-> <<>>]
  ELSE LET pbn == LoadLines(EmptyDict, lines, 1)
       IN  [raised |-> FALSE,
            players_by_name |-> [k \in DOMAIN pbn |-> SortEntries(pbn[k])],
            all_names |-> sorted(DOMAIN pbn)]

\* ------------------------------------------------------------------------
\* fuzzy_match
\* ------------------------------------------------------------------------
\* stable sort of list by descending key; keys[i] is the <<k1, k2>> key of list[i]
KeyGreater(a, b) == a[1] > b[1] \/ (a[1] = b[1] /\ a[2] > b[2])

SortDescByKeys(list, keys) ==
  LET n == Len(list)
      Before(j, i) == KeyGreater(keys[j], keys[i]) \/ (keys[j] = keys[i] /\ j < i)
  IN  [r \in 1..n |->
         list[CHOOSE i \in 1..n : Cardinality({j \in 1..n : Before(j, i)}) = r - 1]]

\* the installed similarity library: HAS_RAPIDFUZZ, else HAS_THEFUZZ, else neither
Scorers == {"rapidfuzz", "thefuzz", "fallback"}

\* number of positions where two equal-length strings differ
DiffCount(a, b) == Cardinality({i \in 1..Min(Len(a), Len(b)) : a[i] # b[i]})

\* fuzz.WRatio of the library, a 0..100 score that is 100 only for equal strings.
\* The library is not part of the repository: its score for unequal strings is
\* one of the profiles below, fixed for a run.
WRatioProfiles ==
  {[contained |-> 90, near |-> 83, other |-> 45],
   [contained |-> 72, near |-> 67, other |-> 71]}

WRatio(profile, query, choice) ==
  IF query = choice THEN 100
  ELSE IF Contains(query, choice) \/ Contains(choice, query) THEN profile.contained
  ELSE IF Len(query) = Len(choice) /\ DiffCount(query, choice) = 1 THEN profile.near
  ELSE profile.other

\* process.extract(query, choices, scorer=WRatio, limit=limit)
Extract(profile, query, choices, limit) ==
  LET scored == [i \in 1..Len(choices) |-> <<choices[i], WRatio(profile, query, choices[i])>>]
  IN  Slice(SortDescByKeys(scored, [i \in 1..Len(choices) |-> <<scored[i][2], 0>>]), limit)

\* [x for x in list if x[2] >= threshold]
RECURSIVE FilterThreshold(_, _)
FilterThreshold(list, threshold) ==
  IF list = <<>> THEN <<>>
  ELSE IF Head(list)[2] >= threshold
       THEN <<Head(list)>> \o FilterThreshold(Tail(list), threshold)
       ELSE FilterThreshold(Tail(list), threshold)

\* the built-in comparator: the for-loop over choices
RECURSIVE FallbackMatches(_, _)
FallbackMatches(query_lower, choices) ==
  IF choices = <<>> THEN <<>>
  ELSE LET choice == Head(choices)
           rest == FallbackMatches(query_lower, Tail(choices))
       IN  IF query_lower = choice THEN <<<<choice, 100>>>> \o rest
           ELSE IF Contains(query_lower, choice) \/ Contains(choice, query_lower)
                THEN <<<<choice, 85>>>> \o rest
           ELSE IF /\ Len(query_lower) = Len(choice)
                   /\ Len(query_lower) <= 5
                   /\ DiffCount(query_lower, choice) = 1
                THEN <<<<choice, 75>>>> \o rest
           ELSE rest

fuzzy_match(scorer, profile, query, choices, limit, threshold) ==
  IF query = <<>> \/ choices = <<>> THEN <<>>
  ELSE IF scorer = "rapidfuzz" \/ scorer = "thefuzz"
       THEN FilterThreshold(Extract(profile, query, choices, limit), threshold)
  ELSE LET matches == FallbackMatches(lower(query), choices)
       IN  Slice(SortDescByKeys(matches, [i \in 1..Len(matches) |-> <<matches[i][2], 0>>]),
                 limit)

\* ------------------------------------------------------------------------
\* build_ngrams
\* ------------------------------------------------------------------------
\* " ".join(normalize(t["token"]) for t in token_slice).strip()
ChunkOf(token_slice) ==
  strip(join([k \in 1..Len(token_slice) |-> normalize(token_slice[k].token)], <<" ">>))

\* mutant of NgramsOfSize: the last window of each size is left out
RECURSIVE NgramsOfSizeShort(_, _, _)
NgramsOfSizeShort(tokens, n, i) ==
  IF i >= Len(tokens) - n THEN <<>>
  ELSE LET token_slice == SubSeq(tokens, i + 1, i + n)
           chunk == ChunkOf(token_slice)
       IN  (IF chunk = <<>> THEN <<>>
            ELSE <<[chunk |-> chunk, start_idx |-> i, end_idx |-> i + n - 1,
                    token_slice |-> token_slice]>>)
           \o NgramsOfSizeShort(tokens, n, i + 1)

\* the windows of size n starting at i, i+1, ... (0-based)
RECURSIVE NgramsOfSize(_, _, _)
NgramsOfSize(tokens, n, i) ==
  IF i > Len(tokens) - n THEN <<>>
  ELSE LET token_slice == SubSeq(tokens, i + 1, i + n)
           chunk == ChunkOf(token_slice)
       IN  (IF chunk = <<>> THEN <<>>
            ELSE <<[chunk |-> chunk, start_idx |-> i, end_idx |-> i + n - 1,
                    token_slice |-> token_slice]>>)
           \o NgramsOfSize(tokens, n, i + 1)

RECURSIVE NgramsFrom(_, _, _)
NgramsFrom(tokens, n, max_n) ==
  IF n > max_n THEN <<>>
  ELSE NgramsOfSize(tokens, n, 0) \o NgramsFrom(tokens, n + 1, max_n)

build_ngrams(tokens, min_n, max_n) == NgramsFrom(tokens, min_n, max_n)

\* ------------------------------------------------------------------------
\* process_pass
\* ------------------------------------------------------------------------
\* one appended suggestion dict
Suggestion(player, match_type, score) ==
  LET name == Or(player.name, player.full_name)
      career_score == player.career_score
  IN  [name |-> name, match_type |-> match_type, score |-> score,
       career_score |-> career_score,
       player |-> [name |-> name, full_name |-> player.full_name,
                   nationality |-> player.nationality, position |-> player.position,
                   current_club |-> Or(player.current_club, player.club),
                   career_score |-> career_score]]

\* mutant of ExactStage: only the best record of the key is suggested
ExactStageTopOnly(players_by_name, chunk, max_suggestions) ==
  LET exact_players == Slice(DictGet(players_by_name, chunk), 1)
  IN  [i \in 1..Len(exact_players) |-> Suggestion(exact_players[i], "exact", 100)]

\* 1. Exact match
ExactStage(players_by_name, chunk, max_suggestions) ==
  LET exact_players == Slice(DictGet(players_by_name, chunk), max_suggestions)
  IN  [i \in 1..Len(exact_players) |-> Suggestion(exact_players[i], "exact", 100)]

\* any(s["name"].lower() == x.lower() for s in suggestions)
NameSuggested(suggestions, x) ==
  \E i \in 1..Len(suggestions) : lower(suggestions[i].name) = lower(x)

\* for player in players[:2]
RECURSIVE FuzzyPlayers(_, _, _, _)
FuzzyPlayers(suggestions, players, score, max_suggestions) ==
  IF players = <<>> THEN suggestions
  ELSE LET player == Head(players)
           name == Or(player.name, player.full_name)
       IN  IF NameSuggested(suggestions, name)
           THEN FuzzyPlayers(suggestions, Tail(players), score, max_suggestions)
           ELSE LET added == Append(suggestions, Suggestion(player, "fuzzy", score))
                IN  IF Len(added) >= max_suggestions THEN added
                    ELSE FuzzyPlayers(added, Tail(players), score, max_suggestions)

\* for matched_name, score in fuzzy_matches
RECURSIVE FuzzyLoop(_, _, _, _)
FuzzyLoop(suggestions, fuzzy_matches, players_by_name, max_suggestions) ==
  IF fuzzy_matches = <<>> THEN suggestions
  ELSE LET matched_name == Head(fuzzy_matches)[1]
           score == Head(fuzzy_matches)[2]
       IN  IF NameSuggested(suggestions, matched_name)
           THEN FuzzyLoop(suggestions, Tail(fuzzy_matches), players_by_name, max_suggestions)
           ELSE LET added == FuzzyPlayers(suggestions,
                                          Slice(DictGet(players_by_name, matched_name), 2),
                                          score, max_suggestions)
                IN  IF Len(added) >= max_suggestions THEN added
                    ELSE FuzzyLoop(added, Tail(fuzzy_matches), players_by_name,
                                   max_suggestions)

\* 2. Fuzzy match (if no exact or want more suggestions)
FuzzyStage(env, suggestions, chunk, fuzzy_threshold, max_suggestions) ==
  IF Len(suggestions) < max_suggestions
  THEN FuzzyLoop(suggestions,
                 fuzzy_match(env.scorer, env.profile, chunk, env.all_names,
                             max_suggestions * 2, fuzzy_threshold),
                 env.players_by_name, max_suggestions)
  ELSE suggestions

\* the cache-miss branch: exact stage, then fuzzy stage
Matcher(env, chunk, fuzzy_threshold, max_suggestions) ==
  FuzzyStage(env, ExactStage(env.players_by_name, chunk, max_suggestions),
             chunk, fuzzy_threshold, max_suggestions)

\* mutant of StoreInCache: the entry is keyed by the first word of the n-gram
StoreInCacheByFirstWord(search_cache, chunk, suggestions) ==
  DictPut(search_cache, split(chunk)[1], suggestions)

\* mutant of StoreInCache: an empty result is not stored
StoreInCacheNonEmpty(search_cache, chunk, suggestions) ==
  IF suggestions = <<>> THEN search_cache ELSE DictPut(search_cache, chunk, suggestions)

\* search_cache[chunk] = suggestions
StoreInCache(search_cache, chunk, suggestions) == DictPut(search_cache, chunk, suggestions)

\* mutant of SortSuggestions: the list is left in the order it was built
SortSuggestionsOmitted(suggestions) == suggestions

\* suggestions.sort(key=lambda s: (s["score"] or 0, s["career_score"] or 0.0), reverse=True)
SortSuggestions(suggestions) ==
  SortDescByKeys(suggestions,
                 [i \in 1..Len(suggestions) |->
                    <<suggestions[i].score, suggestions[i].career_score>>])

\* mutant of Truncate: the list is not cut
TruncateOmitted(suggestions, max_suggestions) == suggestions

\* suggestions[:max_suggestions]
Truncate(suggestions, max_suggestions) == Slice(suggestions, max_suggestions)

RECURSIVE SumProbability(_)
SumProbability(token_slice) ==
  IF token_slice = <<>> THEN 0
  ELSE Head(token_slice).probability + SumProbability(Tail(token_slice))

\* avg_probability is kept in 1/60 of a percent, exact for windows of up to 6 tokens
MatchRecord(pass_num, ng, suggestions) ==
  [pass |-> pass_num, ngram |-> ng.chunk,
   token_indices |-> <<ng.start_idx, ng.end_idx>>,
   segment_start |-> ng.token_slice[1].segment_start,
   segment_end |-> ng.token_slice[Len(ng.token_slice)].segment_end,
   avg_probability |-> (SumProbability(ng.token_slice) * 60) \div Len(ng.token_slice),
   suggestions |-> suggestions]

\* the n-grams left in the order build_ngrams made them
SortNgramsOmitted(ngrams) == ngrams

\* ngrams.sort(key=lambda x: len(x[0].split()), reverse=True)
SortNgrams(ngrams) ==
  SortDescByKeys(ngrams, [i \in 1..Len(ngrams) |-> <<Len(split(ngrams[i].chunk)), 0>>])

\* the loop body without the seen_ngrams test
PassStepSeenOmitted(env, st, ng, pass_num, fuzzy_threshold, max_suggestions) ==
  IF FALSE THEN st
  ELSE LET hit == ng.chunk \in DOMAIN st.search_cache
           suggestions == IF hit THEN st.search_cache[ng.chunk]
                          ELSE Matcher(env, ng.chunk, fuzzy_threshold, max_suggestions)
           cache1 == IF hit THEN st.search_cache
                     ELSE StoreInCache(st.search_cache, ng.chunk, suggestions)
           counted == [st EXCEPT !.cache_hits = IF hit THEN @ + 1 ELSE @,
                                 !.searches = IF hit THEN @ ELSE @ + 1,
                                 !.processed = Append(@, ng)]
       IN  IF suggestions = <<>> THEN [counted EXCEPT !.search_cache = cache1]
           ELSE LET ordered == SortSuggestions(suggestions)
                    \* the sort is in place: the list object held by the cache is reordered
                    cache2 == IF ng.chunk \in DOMAIN cache1
                              THEN DictPut(cache1, ng.chunk, ordered) ELSE cache1
                IN  [counted EXCEPT
                       !.seen_ngrams = @ \cup {ng.chunk},
                       !.search_cache = cache2,
                       !.matches = Append(@, MatchRecord(pass_num, ng,
                                                         Truncate(ordered, max_suggestions)))]

\* one iteration of "for chunk, start_idx, end_idx, token_slice in ngrams";
\* st holds matches, seen_ngrams, search_cache, cache_hits, the number of
\* Matcher runs (cache misses) and, in processed, the n-grams that got past
\* the seen_ngrams test, in the order the loop reached them
PassStep(env, st, ng, pass_num, fuzzy_threshold, max_suggestions) ==
  IF ng.chunk \in st.seen_ngrams THEN st
  ELSE LET hit == ng.chunk \in DOMAIN st.search_cache
           suggestions == IF hit THEN st.search_cache[ng.chunk]
                          ELSE Matcher(env, ng.chunk, fuzzy_threshold, max_suggestions)
           cache1 == IF hit THEN st.search_cache
                     ELSE StoreInCache(st.search_cache, ng.chunk, suggestions)
           counted == [st EXCEPT !.cache_hits = IF hit THEN @ + 1 ELSE @,
                                 !.searches = IF hit THEN @ ELSE @ + 1,
                                 !.processed = Append(@, ng)]
       IN  IF suggestions = <<>> THEN [counted EXCEPT !.search_cache = cache1]
           ELSE LET ordered == SortSuggestions(suggestions)
                    \* the sort is in place: the list object held by the cache is reordered
                    cache2 == IF ng.chunk \in DOMAIN cache1
                              THEN DictPut(cache1, ng.chunk, ordered) ELSE cache1
                IN  [counted EXCEPT
                       !.seen_ngrams = @ \cup {ng.chunk},
                       !.search_cache = cache2,
                       !.matches = Append(@, MatchRecord(pass_num, ng,
                                                         Truncate(ordered, max_suggestions)))]

RECURSIVE PassLoop(_, _, _, _, _, _)
PassLoop(env, st, ngrams, pass_num, fuzzy_threshold, max_suggestions) ==
  IF ngrams = <<>> THEN st
  ELSE PassLoop(env, PassStep(env, st, Head(ngrams), pass_num, fuzzy_threshold,
                              max_suggestions),
                Tail(ngrams), pass_num, fuzzy_threshold, max_suggestions)

\* env: the dictionary (players_by_name, all_names) and the installed scorer;
\* a: the call's arguments; returns matches and the cache as the call leaves it
process_pass(env, a, search_cache) ==
  PassLoop(env,
           [matches |-> <<>>, seen_ngrams |-> {}, search_cache |-> search_cache,
            cache_hits |-> 0, searches |-> 0, processed |-> <<>>],
           SortNgrams(build_ngrams(a.tokens, a.min_gram, a.max_gram)),
           a.pass_num, a.fuzzy_threshold, a.max_suggestions)

\* ------------------------------------------------------------------------
\* Inputs
\* ------------------------------------------------------------------------
SeqsUpTo(S, n) == UNION {[1..k -> S] : k \in 0..n}

\* longest players file of LoadSpec
MaxLines == 2

\* every players file of up to MaxLines lines
Datasets == SeqsUpTo(JsonLines, MaxLines)

\* the players files of Spec: two players sharing the key "silva" listed lowest
\* score first; a file with a malformed line, a record indexed twice under one
\* key and a record whose canonical name normalizes to nothing
MatchDatasets ==
  {<<ObjectLine(P_bernardo), ObjectLine(P_david), ObjectLine(P_ake)>>,
   <<ObjectLine(P_dash), BadJsonLine, ObjectLine(P_messi), ObjectLine(P_david)>>}

Token(text, segment_start, segment_end, probability) ==
  [token |-> text, segment_start |-> segment_start, segment_end |-> segment_end,
   probability |-> probability]

\* stage-1 tokens: part of an exact key, an exact key with punctuation, a one-letter slip
TokenUniverse ==
  {Token(<<"D","a","v","i","d">>, 0, 1, 90), Token(<<"S","i","l","v","a",",">>, 1, 2, 80), Token(<<"a","k","i">>, 2, 3, 60)}

\* longest token list of a pass
MaxTokens == 2

TokenLists == SeqsUpTo(TokenUniverse, MaxTokens)

\* largest --max-suggestions
MaxSug == 2

\* --max-gram
MaxGram == 2

\* --fuzzy-threshold values
Thresholds == {70, 90}

\* largest pass number of the tokens CSV
MaxPass == 1

PassArgs ==
  [pass_num : 1..MaxPass, tokens : TokenLists, min_gram : {1}, max_gram : {MaxGram},
   fuzzy_threshold : Thresholds, max_suggestions : 1..MaxSug]

\* the calls of LoadSpec: one-token passes
LoadPassArgs ==
  [pass_num : {1}, tokens : {<<t>> : t \in TokenUniverse}, min_gram : {1},
   max_gram : {1}, fuzzy_threshold : {70}, max_suggestions : {MaxSug}]

\* process_pass calls made on one search cache
MaxCalls == 2

NoProfile == [contained |-> 0, near |-> 0, other |-> 0]

NoCall == [args |-> None, matches |-> <<>>, cache_hits |-> 0, searches |-> 0,
           processed |-> <<>>]

\* ------------------------------------------------------------------------
\* State
\* ------------------------------------------------------------------------
\* ---------------------------------------------------------------------
\* Python floats, as far as the atempo loops use them: m * 2^e, an
\* infinity (m is its sign) or nan.  A finite result whose magnitude reaches
\* 2^(MaxExp+1) overflows to an infinity, as a double does at 2^1024.
\* ---------------------------------------------------------------------

\* largest binary exponent of a finite float (1023 for a double)
MaxExp == 4

Num(m, e) == [kind |-> "num", m |-> m, e |-> e]

Inf(sign) == [kind |-> "inf", m |-> sign, e |-> 0]

NaN == [kind |-> "nan", m |-> 0, e |-> 0]

Zero == Num(0, 0)

One == Num(1, 0)

Half == Num(1, -1)

Two == Num(1, 1)

Abs(n) == IF n < 0 THEN 0 - n ELSE n

Sign(n) == IF n < 0 THEN 0 - 1 ELSE 1

\* x.m * 2^(x.e - base), for base <= x.e
Scaled(x, base) == x.m * 2^(x.e - base)

\* x < y; every comparison with nan is false
FloatLess(x, y) ==
  IF x.kind = "nan" \/ y.kind = "nan" THEN FALSE
  ELSE IF x.kind = "inf" THEN x.m < 0 /\ ~(y.kind = "inf" /\ y.m < 0)
  ELSE IF y.kind = "inf" THEN y.m > 0
  ELSE LET base == Min(x.e, y.e)
       IN  Scaled(x, base) < Scaled(y, base)

\* x == y
FloatEq(x, y) ==
  IF x.kind = "nan" \/ y.kind = "nan" THEN FALSE
  ELSE IF x.kind = "inf" \/ y.kind = "inf" THEN x.kind = y.kind /\ x.m = y.m
  ELSE LET base == Min(x.e, y.e)
       IN  Scaled(x, base) = Scaled(y, base)

\* x <= y
FloatLessEq(x, y) == FloatLess(x, y) \/ FloatEq(x, y)

\* |m| * 2^e >= 2^(MaxExp + 1)
Overflows(m, e) ==
  LET lo == Min(e, 0)
  IN  m # 0 /\ Abs(m) * 2^(e - lo) >= 2^(MaxExp + 1 - lo)

\* x / y for y a power of two
TrueDiv(x, y) ==
  IF x.kind # "num" \/ x.m = 0 THEN x
  ELSE IF Overflows(x.m, x.e - y.e) THEN Inf(Sign(x.m))
  ELSE Num(x.m, x.e - y.e)

\* round-half-even of num / den, for num >= 0 and den > 0
RoundHalfEven(num, den) ==
  LET q == num \div den
      r == num % den
  IN  IF 2 * r > den \/ (2 * r = den /\ q % 2 = 1) THEN q + 1 ELSE q

\* f"{x:.3f}": the value in thousandths, or "inf" / "nan"
Format3(x) ==
  IF x.kind # "num" THEN [kind |-> x.kind, milli |-> x.m]
  ELSE [kind |-> "num",
        milli |-> Sign(x.m) * (IF x.e >= 0
                                 THEN Abs(x.m) * 2^(x.e) * 1000
                                 ELSE RoundHalfEven(Abs(x.m) * 1000, 2^(0 - x.e)))]

VARIABLES
  pc,               \* "start" before main loads the dictionary, then "ready" or "aborted"
  scorer,           \* which similarity library the process imported
  profile,          \* the library's scoring of unequal strings
  dataset,          \* the lines of the players file
  players_by_name,  \* normalized name -> list of player records
  all_names,        \* sorted list of the normalized names
  search_cache,     \* n-gram text -> list of suggestions
  cache_params,     \* the (fuzzy_threshold, max_suggestions) pairs the cache was used with
  ncalls,           \* process_pass calls made on the cache
  call,             \* the last process_pass call: arguments and result
  prev,             \* the call before it
  name_index,       \* KnowledgeBase._name_index: lower-cased name or alias -> Player
  checked,          \* the last RuleBasedConditionChecker.check call and its result
  applied,          \* the last call of a stateless function: its name, input and output
  run,              \* the run_pipeline invocation: position, stages invoked, errors, outcome
  chain,            \* the atempo chain being built: position, remaining speed, filters
  UiState,          \* integrated_ui.STATE: the tokens and suggestions the UI serves
  threads           \* the request threads of the UI server: handler, position, locals

matchVars == <<pc, scorer, profile, dataset, players_by_name, all_names, search_cache,
               cache_params, ncalls, call, prev>>

evalVars == <<name_index, checked>>

fnVars == <<applied>>

uiVars == <<UiState, threads>>

procVars == <<run, chain, uiVars>>

vars == <<matchVars, evalVars, fnVars, procVars>>

Env == [players_by_name |-> players_by_name, all_names |-> all_names,
        scorer |-> scorer, profile |-> profile]

NoCheck == [names |-> <<>>, question |-> None, ok |-> FALSE, reason |-> None]

NoApply == [op |-> "none", input |-> <<>>, output |-> <<>>]

\* run_pipeline has not been called
NoRun == [pc |-> "idle", args |-> <<>>, invoked |-> <<>>, errors |-> <<>>,
          failed |-> "none", outcome |-> "none", all_valid |-> FALSE]

\* no atempo chain is being built
NoChain == [pc |-> "idle", fn |-> "none", speed |-> One, remaining |-> One,
            filters |-> <<>>, result |-> <<>>]

\* request threads the server runs at a time
MaxThreads == 2

\* a thread that serves no request
IdleThread == [handler |-> "none", pc |-> "idle", tokens |-> <<>>, rows |-> <<>>]

\* the STATE dict as the module defines it, and no request in progress
UiIdle ==
  /\ UiState = [tokens |-> <<>>, suggestions |-> EmptyDict]
  /\ threads = [t \in 1..MaxThreads |-> IdleThread]

ProcIdle == run = NoRun /\ chain = NoChain /\ UiIdle

Init ==
  /\ ProcIdle
  /\ pc = "start"
  /\ \E s \in Scorers, p \in WRatioProfiles :
        /\ scorer = s
        /\ profile = IF s = "fallback" THEN NoProfile ELSE p
  /\ name_index = EmptyDict
  /\ checked = NoCheck
  /\ applied = NoApply
  /\ dataset = <<>>
  /\ players_by_name = EmptyDict
  /\ all_names = <<>>
  /\ search_cache = EmptyDict
  /\ cache_params = {}
  /\ ncalls = 0
  /\ call = NoCall
  /\ prev = NoCall

\* main: load_players, then a fresh shared search cache; an exception of
\* load_players ends the process
Start(files) ==
  /\ pc = "start"
  /\ \E lines \in files :
        LET loaded == load_players(lines)
        IN  /\ dataset' = lines
            /\ players_by_name' = loaded.players_by_name
            /\ all_names' = loaded.all_names
            /\ pc' = IF loaded.raised THEN "aborted" ELSE "ready"
  /\ search_cache' = EmptyDict
  /\ UNCHANGED <<scorer, profile, cache_params, ncalls, call, prev, evalVars, fnVars, procVars>>

\* one process_pass call on the shared cache
ProcessPass(arguments) ==
  /\ pc = "ready"
  /\ ncalls < MaxCalls
  /\ \E a \in arguments :
        \E result \in {process_pass(Env, a, search_cache)} :
            /\ call' = [args |-> a, matches |-> result.matches,
                        cache_hits |-> result.cache_hits, searches |-> result.searches,
                        processed |-> result.processed]
            /\ search_cache' = result.search_cache
            /\ cache_params' = cache_params \cup {<<a.fuzzy_threshold, a.max_suggestions>>}
  /\ prev' = call
  /\ ncalls' = ncalls + 1
  /\ UNCHANGED <<pc, scorer, profile, dataset, players_by_name, all_names, evalVars, fnVars, procVars>>

Next == Start(MatchDatasets) \/ ProcessPass(PassArgs)

Spec == Init /\ [][Next]_vars

LoadNext == Start(Datasets) \/ ProcessPass(LoadPassArgs)

LoadSpec == Init /\ [][LoadNext]_vars

\* ------------------------------------------------------------------------
\* Claims about process_pass and its search cache (Spec)
\* ------------------------------------------------------------------------
Called == pc = "ready" /\ ncalls > 0

\* what the last call returns when it is started with an empty cache
ColdMatches == process_pass(Env, call.args, EmptyDict).matches

\* C1, as stated: every call on a shared cache returns the MatchRecord list
\* the same call returns from an empty cache.
C1_CacheTransparent == Called => call.matches = ColdMatches

\* C1, amended: when every call that shared the cache used the same
\* fuzzy_threshold and max_suggestions, each call returns the MatchRecord list
\* the same call returns from an empty cache.
C1_CacheTransparentSameParams ==
  (Called /\ Cardinality(cache_params) = 1) => call.matches = ColdMatches

\* a second call, with the parameters of the first, that was answered from the cache
C1_Witness ==
  /\ ncalls = 2
  /\ Cardinality(cache_params) = 1
  /\ call.args.tokens # prev.args.tokens
  /\ call.cache_hits > 0
  /\ call.searches > 0
  /\ call.matches # <<>>

\* C2: a call repeated with the same arguments on the shared cache returns the
\* same MatchRecord list and never runs the matcher.
C2_RepeatIsCached ==
  (Called /\ ncalls >= 2 /\ call.args = prev.args)
     => (call.matches = prev.matches /\ call.searches = 0)

\* a repeated call whose hits include an n-gram cached with no suggestions
C2_Witness ==
  /\ ncalls >= 2
  /\ call.args = prev.args
  /\ prev.searches > 0
  /\ call.matches # <<>>
  /\ call.cache_hits > Len(call.matches)

SuggestionsOrdered(suggestions) ==
  \A i, j \in 1..Len(suggestions) :
     i < j => \/ suggestions[i].score > suggestions[j].score
              \/ /\ suggestions[i].score = suggestions[j].score
                 /\ suggestions[i].career_score >= suggestions[j].career_score

\* C3: in every returned MatchRecord the suggestions are ordered by score
\* descending and, among equal scores, by career_score descending.
C3_SuggestionsSorted ==
  Called => \A m \in 1..Len(call.matches) : SuggestionsOrdered(call.matches[m].suggestions)

\* a call that returns, one computed and one from the cache, lists of two
\* suggestions that differ in score or career_score
C3_Witness ==
  /\ Called
  /\ call.cache_hits > 0
  /\ call.searches > 0
  /\ \E m \in 1..Len(call.matches) :
        LET s == call.matches[m].suggestions
        IN  Len(s) = 2 /\ s[1].score = s[2].score /\ s[1].career_score > s[2].career_score
  /\ \E m \in 1..Len(call.matches) :
        LET s == call.matches[m].suggestions
        IN  Len(s) = 2 /\ s[1].score > s[2].score

\* C4: no returned MatchRecord has more than max_suggestions suggestions.
C4_AtMostMaxSuggestions ==
  Called => \A m \in 1..Len(call.matches) :
               Len(call.matches[m].suggestions) <= call.args.max_suggestions

\* a record cut from a longer cache entry that holds an exact and a fuzzy suggestion
C4_Witness ==
  /\ Called
  /\ call.cache_hits > 0
  /\ \E m \in 1..Len(call.matches) :
        LET cached == search_cache[call.matches[m].ngram]
        IN  /\ Len(cached) > call.args.max_suggestions
            /\ Len(call.matches[m].suggestions) = call.args.max_suggestions
            /\ \E i, j \in 1..Len(cached) :
                  cached[i].match_type = "exact" /\ cached[j].match_type = "fuzzy"

\* the exact suggestions of a list, in order
RECURSIVE ExactOnes(_)
ExactOnes(suggestions) ==
  IF suggestions = <<>> THEN <<>>
  ELSE IF Head(suggestions).match_type = "exact"
       THEN <<Head(suggestions)>> \o ExactOnes(Tail(suggestions))
       ELSE ExactOnes(Tail(suggestions))

\* the n-gram texts of the last call
CallChunks ==
  LET ngrams == build_ngrams(call.args.tokens, call.args.min_gram, call.args.max_gram)
  IN  {ngrams[i].chunk : i \in 1..Len(ngrams)}

\* the record of n-gram text chunk has, as its exact suggestions, the first
\* min(max_suggestions, number of records) records of the key, score 100, in
\* stored order, and one of them comes first
ExactEmitted(chunk) ==
  \E m \in 1..Len(call.matches) :
     /\ call.matches[m].ngram = chunk
     /\ LET records == players_by_name[chunk]
            k == Min(call.args.max_suggestions, Len(records))
            exact == ExactOnes(call.matches[m].suggestions)
        IN  /\ Len(exact) = k
            /\ \A i \in 1..k :
                  /\ exact[i].score = 100
                  /\ exact[i].name = (IF Truthy(records[i].name) THEN records[i].name
                                      ELSE records[i].full_name)
                  /\ exact[i].career_score = records[i].career_score
            /\ call.matches[m].suggestions[1].match_type = "exact"

\* C5, as stated: an n-gram that is a dictionary key gets exact suggestions,
\* score 100, for the first min(max_suggestions, records) records in stored
\* order, and the first suggestion of its MatchRecord is one of them.
C5_ExactFirst ==
  Called => \A chunk \in CallChunks : chunk \in DOMAIN players_by_name => ExactEmitted(chunk)

\* C5, amended: the same, when no call that shared the cache used a smaller
\* max_suggestions than this call.
C5_ExactFirstNoSmallerMax ==
  (Called /\ \A p \in cache_params : p[2] >= call.args.max_suggestions)
     => \A chunk \in CallChunks : chunk \in DOMAIN players_by_name => ExactEmitted(chunk)

\* a key with two records answered from the cache with both exact suggestions,
\* and a key with one record followed by a fuzzy suggestion
C5_Witness ==
  /\ ncalls = 2
  /\ \A p \in cache_params : p[2] >= call.args.max_suggestions
  /\ call.cache_hits > 0
  /\ \E chunk \in CallChunks :
        /\ chunk \in DOMAIN players_by_name
        /\ Len(players_by_name[chunk]) >= 2
        /\ call.args.max_suggestions >= 2
  /\ \E m \in 1..Len(call.matches) :
        /\ call.matches[m].ngram \in DOMAIN players_by_name
        /\ \E i \in 1..Len(call.matches[m].suggestions) :
              call.matches[m].suggestions[i].match_type = "fuzzy"

\* C6: every fuzzy suggestion of a returned MatchRecord has a score between
\* fuzzy_threshold and 100, whichever scorer is installed.
C6_FuzzyAboveThreshold ==
  Called => \A m \in 1..Len(call.matches) :
               \A i \in 1..Len(call.matches[m].suggestions) :
                  LET s == call.matches[m].suggestions[i]
                  IN  s.match_type = "fuzzy"
                         => (s.score >= call.args.fuzzy_threshold /\ s.score <= 100)

\* ------------------------------------------------------------------------
\* Claims about load_players (LoadSpec)
\* ------------------------------------------------------------------------
\* C7: under every key the records are in non-increasing order of
\* career_score, after load_players and after every later process_pass call.
C7_EntriesSortedByCareer ==
  pc = "ready" =>
     \A key \in DOMAIN players_by_name :
        \A i, j \in 1..Len(players_by_name[key]) :
           i < j => players_by_name[key][i].career_score
                       >= players_by_name[key][j].career_score

\* after a process_pass call, a key whose best record comes from a later line
\* of the file than a record with a lower score
C7_Witness ==
  /\ Called
  /\ \E key \in DOMAIN players_by_name :
        LET entries == players_by_name[key]
        IN  /\ Len(entries) = 2
            /\ entries[1].career_score > entries[2].career_score
            /\ entries[1].id > entries[2].id

\* C8: no record appears twice in the list stored under one key.
C8_NoRecordTwiceUnderKey ==
  pc = "ready" =>
     \A key \in DOMAIN players_by_name :
        \A i, j \in 1..Len(players_by_name[key]) :
           i < j => players_by_name[key][i].id # players_by_name[key][j].id

\* the record of line i is stored under key
StoredUnder(key, i) ==
  /\ key \in DOMAIN players_by_name
  /\ \E e \in 1..Len(players_by_name[key]) : players_by_name[key][e].id = i

\* name, or full_name when name is absent
CanonicalOf(obj) == IF Truthy(obj.name) THEN obj.name ELSE obj.full_name

HasName(line) == line.kind = "object" /\ (Truthy(line.obj.name) \/ Truthy(line.obj.full_name))

\* C9, as stated: every record with a name or a full_name is stored under the
\* normalized form of its canonical name.
C9_StoredUnderCanonicalName ==
  pc = "ready" =>
     \A i \in 1..Len(dataset) :
        HasName(dataset[i]) => StoredUnder(normalize(CanonicalOf(dataset[i].obj)), i)

\* C9, amended: every record whose canonical name has a non-empty normalized
\* form is stored under that form.
C9_StoredUnderNonEmptyCanonicalName ==
  pc = "ready" =>
     \A i \in 1..Len(dataset) :
        (HasName(dataset[i]) /\ normalize(CanonicalOf(dataset[i].obj)) # <<>>)
           => StoredUnder(normalize(CanonicalOf(dataset[i].obj)), i)

\* a record without "name" stored under its normalized full_name, beside a
\* record stored under its normalized name
C9_Witness ==
  /\ pc = "ready"
  /\ \E i, j \in 1..Len(dataset) :
        /\ HasName(dataset[i]) /\ ~Truthy(dataset[i].obj.name)
        /\ StoredUnder(normalize(dataset[i].obj.full_name), i)
        /\ HasName(dataset[j]) /\ Truthy(dataset[j].obj.name)
        /\ StoredUnder(normalize(dataset[j].obj.name), j)

\* ------------------------------------------------------------------------
\* knowledge.KnowledgeBase and eval.RuleBasedConditionChecker
\* ------------------------------------------------------------------------
\* knowledge.Player
KbPlayer(name, nationality, clubs, world_cup_years, club_history, honors, aliases) ==
  [name |-> name, nationality |-> nationality, clubs |-> clubs, leagues |-> <<>>,
   world_cup_years |-> world_cup_years, club_history |-> club_history,
   honors |-> honors, aliases |-> aliases]

HistoryEntry(club, from, to) == [club |-> club, from |-> from, to |-> to]

Honor(type, club, season) == [type |-> type, club |-> club, season |-> season]

K_messi ==
  KbPlayer(<<"M","e","s","s","i">>, <<"A","r","g","e","n","t","i","n","a">>, <<<<"B","a","r","c","e","l","o","n","a">>, <<"P","S","G">>>>, <<2014, 2022>>,
           <<HistoryEntry(<<"B","a","r","c","e","l","o","n","a">>, <<"2","0","0","4">>, <<"2","0","2","1">>)>>,
           <<Honor(<<"t","r","e","b","l","e">>, <<"B","a","r","c","e","l","o","n","a">>, <<"2","0","0","8","-","0","9">>)>>, <<<<"L","e","o">>>>)

K_xavi ==
  KbPlayer(<<"X","a","v","i">>, <<"S","p","a","i","n">>, <<<<"B","a","r","c","e","l","o","n","a">>>>, <<2010>>, <<>>,
           <<Honor(<<"t","r","e","b","l","e">>, <<"B","a","r","c","e","l","o","n","a">>, <<"2","0","0","8","-","0","9">>)>>, <<>>)

K_ronaldo ==
  KbPlayer(<<"R","o","n","a","l","d","o">>, <<"P","o","r","t","u","g","a","l">>, <<<<"R","e","a","l"," ","M","a","d","r","i","d">>>>, <<2006>>,
           <<HistoryEntry(<<"R","e","a","l"," ","M","a","d","r","i","d">>, <<"2","0","0","9">>, <<"2","0","1","8">>)>>, <<>>, <<>>)

\* in the club only through club_history
K_pedri ==
  KbPlayer(<<"P","e","d","r","i">>, <<"S","p","a","i","n">>, <<>>, <<>>,
           <<HistoryEntry(<<"B","a","r","c","e","l","o","n","a">>, <<"2","0","2","0">>, <<"2","0","2","4">>)>>, <<>>, <<>>)

\* the player lists a KnowledgeBase is built from
KnowledgeBases ==
  {<<>>, <<K_messi, K_xavi>>, <<K_messi, K_xavi, K_ronaldo, K_pedri>>}

\* for alias in player.aliases: self._name_index[alias.lower()] = player
RECURSIVE IndexAliases(_, _, _)
IndexAliases(index, aliases, player) ==
  IF aliases = <<>> THEN index
  ELSE IndexAliases(DictPut(index, lower(Head(aliases)), player), Tail(aliases), player)

\* KnowledgeBase.__init__: the loop over players
RECURSIVE BuildNameIndex(_, _)
BuildNameIndex(index, players) ==
  IF players = <<>> THEN index
  ELSE BuildNameIndex(IndexAliases(DictPut(index, lower(Head(players).name), Head(players)),
                                   Head(players).aliases, Head(players)),
                      Tail(players))

\* KnowledgeBase.get(name) is None
Missing(index, name) == lower(name) \notin DOMAIN index

\* KnowledgeBase.get(name), when it is not None
Get(index, name) == index[lower(name)]

\* s.split(sep, 1)[1], for sep in s
AfterFirst(s, sep) ==
  LET i == CHOOSE k \in 0..(Len(s) - Len(sep)) :
              /\ SubSeq(s, k + 1, k + Len(sep)) = sep
              /\ \A j \in 0..(k - 1) : SubSeq(s, j + 1, j + Len(sep)) # sep
  IN  SubSeq(s, i + Len(sep) + 1, Len(s))

Verdict(ok, reason) == [ok |-> ok, reason |-> reason]

\* strip("?.! ")
ClubStripChars == {"?", ".", "!", " "}

\* mutant of WorldCupLoop: a player without knowledge is passed over
RECURSIVE WorldCupLoopSkipMissing(_, _)
WorldCupLoopSkipMissing(index, names) ==
  IF names = <<>> THEN Verdict(TRUE, <<"A","l","l"," ","p","l","a","y","e","r","s"," ","h","a","v","e"," ","W","o","r","l","d"," ","C","u","p"," ","a","p","p","e","a","r","a","n","c","e","s",".">>)
  ELSE LET name == Head(names)
       IN  IF Missing(index, name)
           THEN WorldCupLoopSkipMissing(index, Tail(names))
           ELSE IF Get(index, name).world_cup_years = <<>>
           THEN Verdict(FALSE, name \o <<" ","n","e","v","e","r"," ","p","l","a","y","e","d"," ","i","n"," ","a"," ","W","o","r","l","d"," ","C","u","p",".">>)
           ELSE WorldCupLoopSkipMissing(index, Tail(names))

\* if "world cup" in q
RECURSIVE WorldCupLoop(_, _)
WorldCupLoop(index, names) ==
  IF names = <<>> THEN Verdict(TRUE, <<"A","l","l"," ","p","l","a","y","e","r","s"," ","h","a","v","e"," ","W","o","r","l","d"," ","C","u","p"," ","a","p","p","e","a","r","a","n","c","e","s",".">>)
  ELSE LET name == Head(names)
       IN  IF Missing(index, name)
           THEN Verdict(FALSE, <<"M","i","s","s","i","n","g"," ","k","n","o","w","l","e","d","g","e"," ","f","o","r"," ">> \o name \o <<".">>)
           ELSE IF Get(index, name).world_cup_years = <<>>
           THEN Verdict(FALSE, name \o <<" ","n","e","v","e","r"," ","p","l","a","y","e","d"," ","i","n"," ","a"," ","W","o","r","l","d"," ","C","u","p",".">>)
           ELSE WorldCupLoop(index, Tail(names))

\* entry.get("type") == "treble" and (not club or entry.get("club", "").lower() == club.lower())
TrebleEntry(entry, club) ==
  /\ entry.type = <<"t","r","e","b","l","e">>
  /\ (~Truthy(club) \/ lower(entry.club) = lower(club))

\* the first treble entry of the honors list, for the details line
RECURSIVE FirstTreble(_, _)
FirstTreble(honors, club) ==
  IF honors = <<>> THEN <<>>
  ELSE IF TrebleEntry(Head(honors), club) THEN <<Head(honors)>>
  ELSE FirstTreble(Tail(honors), club)

RECURSIVE TrebleDetails(_, _, _)
TrebleDetails(index, names, club) ==
  IF names = <<>> THEN <<>>
  ELSE LET name == Head(names)
           first == FirstTreble(Get(index, name).honors, club)
       IN  (IF first = <<>> THEN <<>> ELSE <<name \o <<":"," ">> \o first[1].season>>)
           \o TrebleDetails(index, Tail(names), club)

RECURSIVE TrebleLoop(_, _, _, _)
TrebleLoop(index, names, all_names_, club) ==
  IF names = <<>>
  THEN IF Truthy(club)
       THEN Verdict(TRUE, <<"A","l","l"," ","p","l","a","y","e","r","s"," ","w","o","n"," ","a"," ","t","r","e","b","l","e"," ","w","i","t","h"," ">> \o club \o <<"."," ">>
                          \o join(TrebleDetails(index, all_names_, club), <<";"," ">>))
       ELSE Verdict(TRUE, <<"A","l","l"," ","p","l","a","y","e","r","s"," ","w","o","n"," ","a"," ","t","r","e","b","l","e","."," ">>
                          \o join(TrebleDetails(index, all_names_, club), <<";"," ">>))
  ELSE LET name == Head(names)
       IN  IF Missing(index, name)
           THEN Verdict(FALSE, <<"M","i","s","s","i","n","g"," ","k","n","o","w","l","e","d","g","e"," ","f","o","r"," ">> \o name \o <<".">>)
           ELSE IF FirstTreble(Get(index, name).honors, club) = <<>>
           THEN IF Truthy(club)
                THEN Verdict(FALSE, name \o <<" ","d","i","d"," ","n","o","t"," ","w","i","n"," ","a"," ","t","r","e","b","l","e"," ","w","i","t","h"," ">> \o club \o <<".">>)
                ELSE Verdict(FALSE, name \o <<" ","d","i","d"," ","n","o","t"," ","w","i","n"," ","a"," ","t","r","e","b","l","e",".">>)
           ELSE TrebleLoop(index, Tail(names), all_names_, club)

\* the first club_history entry of the club, for the details line
RECURSIVE FirstHistory(_, _)
FirstHistory(club_history, club) ==
  IF club_history = <<>> THEN <<>>
  ELSE IF lower(Head(club_history).club) = lower(club) THEN <<Head(club_history)>>
  ELSE FirstHistory(Tail(club_history), club)

\* if "played for" in q or "club" in q: the loop over names; details accumulates
RECURSIVE ClubLoop(_, _, _, _)
ClubLoop(index, names, club, details) ==
  IF names = <<>>
  THEN IF details # <<>>
       THEN Verdict(TRUE, <<"A","l","l"," ","p","l","a","y","e","r","s"," ","p","l","a","y","e","d"," ","f","o","r"," ">> \o club \o <<"."," ">> \o join(details, <<";"," ">>))
       ELSE Verdict(TRUE, <<"A","l","l"," ","p","l","a","y","e","r","s"," ","p","l","a","y","e","d"," ","f","o","r"," ">> \o club \o <<".">>)
  ELSE LET name == Head(names)
       IN  IF Missing(index, name)
           THEN Verdict(FALSE, <<"M","i","s","s","i","n","g"," ","k","n","o","w","l","e","d","g","e"," ","f","o","r"," ">> \o name \o <<".">>)
           ELSE LET player == Get(index, name)
                    clubs == [i \in 1..Len(player.clubs) |-> lower(player.clubs[i])]
                    first == FirstHistory(player.club_history, club)
                IN  IF Truthy(club) /\ ~InList(lower(club), clubs)
                    THEN Verdict(FALSE, name \o <<" ","d","i","d"," ","n","o","t"," ","p","l","a","y"," ","f","o","r"," ">> \o club \o <<".">>)
                    ELSE ClubLoop(index, Tail(names), club,
                                  IF first = <<>> THEN details
                                  ELSE Append(details, name \o <<":"," ">> \o first[1].from
                                                       \o <<" ","t","o"," ">> \o first[1].to))

\* if "national" in q or "are" in q
RECURSIVE NationalityLoop(_, _, _)
NationalityLoop(index, names, q) ==
  IF names = <<>> THEN Verdict(TRUE, <<"A","l","l"," ","p","l","a","y","e","r","s"," ","m","a","t","c","h"," ","t","h","e"," ","n","a","t","i","o","n","a","l","i","t","y"," ","c","o","n","s","t","r","a","i","n","t",".">>)
  ELSE LET name == Head(names)
       IN  IF Missing(index, name)
           THEN Verdict(FALSE, <<"M","i","s","s","i","n","g"," ","k","n","o","w","l","e","d","g","e"," ","f","o","r"," ">> \o name \o <<".">>)
           ELSE LET nationality == lower(Or(Get(index, name).nationality, <<>>))
                IN  IF Truthy(nationality) /\ Contains(nationality, q)
                    THEN NationalityLoop(index, Tail(names), q)
                    ELSE IF Contains(<<"a","r","e">>, q) /\ Truthy(nationality)
                            /\ ~Contains(nationality, q)
                    THEN Verdict(FALSE, name \o <<" ","i","s"," ","n","o","t"," ">> \o nationality \o <<".">>)
                    ELSE NationalityLoop(index, Tail(names), q)

\* mutant of check: the "all" test is left out
checkAllOptional(index, names, question) ==
  IF names = <<>> THEN Verdict(FALSE, <<"N","o"," ","n","a","m","e","s"," ","e","x","t","r","a","c","t","e","d"," ","f","r","o","m"," ","t","r","a","n","s","c","r","i","p","t",".">>)
  ELSE LET q == strip(lower(question))
       IN  IF Contains(<<"w","o","r","l","d"," ","c","u","p">>, q) THEN WorldCupLoop(index, names)
           ELSE IF Contains(<<"t","r","e","b","l","e">>, q)
           THEN TrebleLoop(index, names, names,
                           IF Contains(<<"w","i","t","h">>, q)
                           THEN strip_chars(AfterFirst(q, <<"w","i","t","h">>), ClubStripChars)
                           ELSE None)
           ELSE IF Contains(<<"p","l","a","y","e","d"," ","f","o","r">>, q) \/ Contains(<<"c","l","u","b">>, q)
           THEN ClubLoop(index, names,
                         strip_chars(IF Contains(<<"p","l","a","y","e","d"," ","f","o","r">>, q)
                                     THEN strip(AfterFirst(q, <<"p","l","a","y","e","d"," ","f","o","r">>))
                                     ELSE strip(AfterFirst(q, <<"c","l","u","b">>)),
                                     ClubStripChars),
                         <<>>)
           ELSE IF Contains(<<"n","a","t","i","o","n","a","l">>, q) \/ Contains(<<"a","r","e">>, q)
           THEN NationalityLoop(index, names, q)
           ELSE Verdict(FALSE, <<"R","u","l","e","-","b","a","s","e","d"," ","c","h","e","c","k","e","r"," ","d","o","e","s"," ","n","o","t"," ","s","u","p","p","o","r","t"," ","t","h","i","s"," ","q","u","e","s","t","i","o","n"," ","t","y","p","e",".">>)

\* mutant of check: the treble rule is tried before the world cup rule
checkTrebleFirst(index, names, question) ==
  IF names = <<>> THEN Verdict(FALSE, <<"N","o"," ","n","a","m","e","s"," ","e","x","t","r","a","c","t","e","d"," ","f","r","o","m"," ","t","r","a","n","s","c","r","i","p","t",".">>)
  ELSE LET q == strip(lower(question))
       IN  IF ~Contains(<<"a","l","l">>, q)
           THEN Verdict(FALSE, <<"Q","u","e","s","t","i","o","n"," ","m","u","s","t"," ","i","n","c","l","u","d","e"," ","a","n"," ","'","a","l","l","'"," ","c","o","n","s","t","r","a","i","n","t",".">>)
           ELSE IF Contains(<<"t","r","e","b","l","e">>, q)
           THEN TrebleLoop(index, names, names,
                           IF Contains(<<"w","i","t","h">>, q)
                           THEN strip_chars(AfterFirst(q, <<"w","i","t","h">>), ClubStripChars)
                           ELSE None)
           ELSE IF Contains(<<"w","o","r","l","d"," ","c","u","p">>, q) THEN WorldCupLoop(index, names)
           ELSE IF Contains(<<"p","l","a","y","e","d"," ","f","o","r">>, q) \/ Contains(<<"c","l","u","b">>, q)
           THEN ClubLoop(index, names,
                         strip_chars(IF Contains(<<"p","l","a","y","e","d"," ","f","o","r">>, q)
                                     THEN strip(AfterFirst(q, <<"p","l","a","y","e","d"," ","f","o","r">>))
                                     ELSE strip(AfterFirst(q, <<"c","l","u","b">>)),
                                     ClubStripChars),
                         <<>>)
           ELSE IF Contains(<<"n","a","t","i","o","n","a","l">>, q) \/ Contains(<<"a","r","e">>, q)
           THEN NationalityLoop(index, names, q)
           ELSE Verdict(FALSE, <<"R","u","l","e","-","b","a","s","e","d"," ","c","h","e","c","k","e","r"," ","d","o","e","s"," ","n","o","t"," ","s","u","p","p","o","r","t"," ","t","h","i","s"," ","q","u","e","s","t","i","o","n"," ","t","y","p","e",".">>)

\* RuleBasedConditionChecker.check
check(index, names, question) ==
  IF names = <<>> THEN Verdict(FALSE, <<"N","o"," ","n","a","m","e","s"," ","e","x","t","r","a","c","t","e","d"," ","f","r","o","m"," ","t","r","a","n","s","c","r","i","p","t",".">>)
  ELSE LET q == strip(lower(question))
       IN  IF ~Contains(<<"a","l","l">>, q)
           THEN Verdict(FALSE, <<"Q","u","e","s","t","i","o","n"," ","m","u","s","t"," ","i","n","c","l","u","d","e"," ","a","n"," ","'","a","l","l","'"," ","c","o","n","s","t","r","a","i","n","t",".">>)
           ELSE IF Contains(<<"w","o","r","l","d"," ","c","u","p">>, q) THEN WorldCupLoop(index, names)
           ELSE IF Contains(<<"t","r","e","b","l","e">>, q)
           THEN TrebleLoop(index, names, names,
                           IF Contains(<<"w","i","t","h">>, q)
                           THEN strip_chars(AfterFirst(q, <<"w","i","t","h">>), ClubStripChars)
                           ELSE None)
           ELSE IF Contains(<<"p","l","a","y","e","d"," ","f","o","r">>, q) \/ Contains(<<"c","l","u","b">>, q)
           THEN ClubLoop(index, names,
                         strip_chars(IF Contains(<<"p","l","a","y","e","d"," ","f","o","r">>, q)
                                     THEN strip(AfterFirst(q, <<"p","l","a","y","e","d"," ","f","o","r">>))
                                     ELSE strip(AfterFirst(q, <<"c","l","u","b">>)),
                                     ClubStripChars),
                         <<>>)
           ELSE IF Contains(<<"n","a","t","i","o","n","a","l">>, q) \/ Contains(<<"a","r","e">>, q)
           THEN NationalityLoop(index, names, q)
           ELSE Verdict(FALSE, <<"R","u","l","e","-","b","a","s","e","d"," ","c","h","e","c","k","e","r"," ","d","o","e","s"," ","n","o","t"," ","s","u","p","p","o","r","t"," ","t","h","i","s"," ","q","u","e","s","t","i","o","n"," ","t","y","p","e",".">>)

\* ------------------------------------------------------------------------
\* The condition checker as a state machine (EvalSpec)
\* ------------------------------------------------------------------------
Q_play_for_barcelona == <<"D","i","d"," ","a","l","l"," ","o","f"," ","t","h","e","s","e"," ","p","l","a","y"," ","f","o","r"," ","B","a","r","c","e","l","o","n","a","?">>

Questions ==
  {Q_play_for_barcelona,
   <<"H","a","v","e"," ","a","l","l"," ","o","f"," ","t","h","e","s","e"," ","p","l","a","y","e","d"," ","f","o","r"," ","B","a","r","c","e","l","o","n","a","?">>,
   <<"D","i","d"," ","t","h","e","y"," ","p","l","a","y"," ","f","o","r"," ","B","a","r","c","e","l","o","n","a","?">>,
   <<"H","a","v","e"," ","a","l","l"," ","p","l","a","y","e","d"," ","i","n"," ","a"," ","W","o","r","l","d"," ","C","u","p","?">>,
   <<"D","i","d"," ","a","l","l"," ","w","i","n"," ","t","h","e"," ","t","r","e","b","l","e"," ","w","i","t","h"," ","B","a","r","c","e","l","o","n","a","?">>,
   <<"A","r","e"," ","a","l","l"," ","f","r","o","m"," ","S","p","a","i","n","?">>,
   <<"D","o"," ","a","l","l"," ","s","c","o","r","e"," ","g","o","a","l","s","?">>,
   <<"I","s"," ","t","h","e"," ","n","a","t","i","o","n","a","l","i","t","y"," ","o","f"," ","a","l","l"," ","S","p","a","i","n","?">>,
   <<"A","r","e"," ","t","h","e","y"," ","f","r","o","m"," ","S","p","a","i","n","?">>,
   <<"D","i","d"," ","a","l","l"," ","w","i","n"," ","t","h","e"," ","t","r","e","b","l","e"," ","a","t"," ","t","h","e"," ","W","o","r","l","d"," ","C","u","p","?">>,
   <<"A","r","e"," ","a","l","l"," ","t","r","e","b","l","e"," ","w","i","n","n","e","r","s"," ","w","i","t","h"," ","B","a","r","c","e","l","o","n","a","?">>,
   <<"H","a","v","e"," ","a","l","l"," ","p","l","a","y","e","d"," ","f","o","r"," ","a"," ","W","o","r","l","d"," ","C","u","p"," ","c","l","u","b","?">>,
   <<"W","h","i","c","h"," ","c","l","u","b"," ","a","r","e"," ","a","l","l"," ","f","r","o","m","?">>}

ExtractedNames == {<<"M","e","s","s","i">>, <<"X","a","v","i">>, <<"R","o","n","a","l","d","o">>, <<"P","e","d","r","i">>, <<"l","e","o">>}

\* longest list of names passed to check
MaxNames == 2

NameLists == SeqsUpTo(ExtractedNames, MaxNames)

EvalInit ==
  /\ ProcIdle
  /\ pc = "start"
  /\ scorer = "fallback"
  /\ profile = NoProfile
  /\ dataset = <<>>
  /\ players_by_name = EmptyDict
  /\ all_names = <<>>
  /\ search_cache = EmptyDict
  /\ cache_params = {}
  /\ ncalls = 0
  /\ call = NoCall
  /\ prev = NoCall
  /\ \E players \in KnowledgeBases : name_index = BuildNameIndex(EmptyDict, players)
  /\ checked = NoCheck
  /\ applied = NoApply

\* RuleBasedConditionChecker(knowledge).check(names, question). check reads the
\* knowledge base and keeps nothing between calls: a behaviour holds one call.
Check ==
  /\ checked = NoCheck
  /\ \E names \in NameLists, question \in Questions :
        \E result \in {check(name_index, names, question)} :
           checked' = [names |-> names, question |-> question,
                       ok |-> result.ok, reason |-> result.reason]
  /\ UNCHANGED <<matchVars, name_index, fnVars, procVars>>

EvalNext == Check

EvalSpec == EvalInit /\ [][EvalNext]_vars

\* every name has a knowledge entry whose clubs include club
AllInClub(index, names, club) ==
  \A i \in 1..Len(names) :
     /\ ~Missing(index, names[i])
     /\ InList(club, Get(index, names[i]).clubs)

\* the first name whose knowledge entry lacks the club
LacksClub(index, names, club) ==
  {i \in 1..Len(names) :
     ~Missing(index, names[i]) /\ ~InList(club, Get(index, names[i]).clubs)}

\* C10: for "Did all of these play for Barcelona?", check is positive when
\* every named player's clubs include "Barcelona", and negative with a reason
\* naming the player when exactly one named player's clubs lack it.
C10_PlayForBarcelona ==
  (checked.question = Q_play_for_barcelona /\ checked.names # <<>>
   /\ \A i \in 1..Len(checked.names) : ~Missing(name_index, checked.names[i]))
     => /\ AllInClub(name_index, checked.names, <<"B","a","r","c","e","l","o","n","a">>) => checked.ok
        /\ Cardinality(LacksClub(name_index, checked.names, <<"B","a","r","c","e","l","o","n","a">>)) = 1
              => /\ ~checked.ok
                 /\ \A i \in LacksClub(name_index, checked.names, <<"B","a","r","c","e","l","o","n","a">>) :
                       Contains(checked.names[i], checked.reason)

\* ------------------------------------------------------------------------
\* Properties of the condition checker (EvalSpec)
\* ------------------------------------------------------------------------
\* q of the last check call
CheckedQ == strip(lower(checked.question))

\* a check call was made with a non-empty list of names
CheckedNames == checked.question # None /\ checked.names # <<>>

AllKnown == \A i \in 1..Len(checked.names) : ~Missing(name_index, checked.names[i])

\* the club is in the player's flat clubs list or in a club_history entry
MemberOf(player, club) ==
  \/ \E i \in 1..Len(player.clubs) : lower(player.clubs[i]) = lower(club)
  \/ \E i \in 1..Len(player.club_history) : lower(player.club_history[i].club) = lower(club)

\* the text following "played for", without surrounding punctuation
AskedClub == strip_chars(strip(AfterFirst(CheckedQ, <<"p","l","a","y","e","d"," ","f","o","r">>)), ClubStripChars)

PlayedForQuestion ==
  /\ Contains(<<"a","l","l">>, CheckedQ)
  /\ Contains(<<"p","l","a","y","e","d"," ","f","o","r">>, CheckedQ)
  /\ ~Contains(<<"w","o","r","l","d"," ","c","u","p">>, CheckedQ)
  /\ ~Contains(<<"t","r","e","b","l","e">>, CheckedQ)

\* C11: for an "all ... played for <club>" question about known players, the
\* verdict is positive exactly when every named player has the club in the
\* flat clubs list or in a club_history entry.
C11_MemberByClubsOrHistory ==
  (CheckedNames /\ PlayedForQuestion /\ AllKnown)
     => (checked.ok <=>
           \A i \in 1..Len(checked.names) :
              MemberOf(Get(name_index, checked.names[i]), AskedClub))

NationalityQuestion ==
  /\ Contains(<<"a","l","l">>, CheckedQ)
  /\ Contains(<<"n","a","t","i","o","n","a","l">>, CheckedQ) \/ Contains(<<"a","r","e">>, CheckedQ)
  /\ ~Contains(<<"w","o","r","l","d"," ","c","u","p">>, CheckedQ)
  /\ ~Contains(<<"t","r","e","b","l","e">>, CheckedQ)
  /\ ~Contains(<<"p","l","a","y","e","d"," ","f","o","r">>, CheckedQ)
  /\ ~Contains(<<"c","l","u","b">>, CheckedQ)

\* C12: for a question of the nationality shape, a positive verdict implies that
\* every named player's nationality occurs in the lower-cased question.
C12_PositiveOnlyIfNationalityInQuestion ==
  (CheckedNames /\ NationalityQuestion /\ checked.ok)
     => \A i \in 1..Len(checked.names) :
           /\ ~Missing(name_index, checked.names[i])
           /\ Truthy(Get(name_index, checked.names[i]).nationality)
           /\ Contains(lower(Get(name_index, checked.names[i]).nationality), CheckedQ)

RecognisedQuestion ==
  /\ Contains(<<"a","l","l">>, CheckedQ)
  /\ \/ Contains(<<"w","o","r","l","d"," ","c","u","p">>, CheckedQ)
     \/ Contains(<<"t","r","e","b","l","e">>, CheckedQ)
     \/ Contains(<<"p","l","a","y","e","d"," ","f","o","r">>, CheckedQ)
     \/ Contains(<<"c","l","u","b">>, CheckedQ)
     \/ Contains(<<"n","a","t","i","o","n","a","l">>, CheckedQ)
     \/ Contains(<<"a","r","e">>, CheckedQ)

\* positions of the named players without a knowledge entry
MissingNames == {i \in 1..Len(checked.names) : Missing(name_index, checked.names[i])}

FirstMissing == CHOOSE i \in MissingNames : \A j \in MissingNames : i <= j

MissingReason(name) == <<"M","i","s","s","i","n","g"," ","k","n","o","w","l","e","d","g","e"," ","f","o","r"," ">> \o name \o <<".">>

\* the reason starts with the name followed by a space
ReasonOpensWith(name) ==
  /\ Len(checked.reason) > Len(name)
  /\ SubSeq(checked.reason, 1, Len(name) + 1) = name \o <<" ">>

\* C13: for a recognised question shape, if a named player has no knowledge
\* entry the verdict is negative and the reason names a player without an entry.
C13_MissingPlayerNamed ==
  (CheckedNames /\ RecognisedQuestion /\ MissingNames # {})
     => /\ ~checked.ok
        /\ \E i \in MissingNames : Contains(checked.names[i], checked.reason)

\* C13 (amended): for a recognised question shape, if a named player has no
\* knowledge entry the verdict is negative; the reason names the first such
\* player, unless it names a known player listed before that one.
C13_MissingPlayerNamedUnlessEarlierFails ==
  (CheckedNames /\ RecognisedQuestion /\ MissingNames # {})
     => /\ ~checked.ok
        /\ \/ checked.reason = MissingReason(checked.names[FirstMissing])
           \/ \E j \in 1..(FirstMissing - 1) : ReasonOpensWith(checked.names[j])

\* a known player who passes the rule is followed by a player without knowledge
C13_Witness ==
  /\ CheckedNames /\ RecognisedQuestion
  /\ Len(checked.names) = 2
  /\ MissingNames = {2}
  /\ ~checked.ok
  /\ checked.reason = MissingReason(checked.names[2])

AllConstraintReason == <<"Q","u","e","s","t","i","o","n"," ","m","u","s","t"," ","i","n","c","l","u","d","e"," ","a","n"," ","'","a","l","l","'"," ","c","o","n","s","t","r","a","i","n","t",".">>

\* C14: for a non-empty list of names, a question whose lower-cased text does
\* not contain "all" gets a negative verdict with the 'all' constraint reason,
\* whatever the names and the knowledge base are.
C14_NoAllRejected ==
  (CheckedNames /\ ~Contains(<<"a","l","l">>, lower(checked.question)))
     => /\ ~checked.ok
        /\ checked.reason = AllConstraintReason

\* a nationality question without "all" about known players from the country asked
C14_Witness ==
  /\ CheckedNames /\ AllKnown
  /\ ~Contains(<<"a","l","l">>, lower(checked.question))
  /\ Contains(<<"a","r","e">>, CheckedQ)
  /\ \A i \in 1..Len(checked.names) :
        Contains(lower(Get(name_index, checked.names[i]).nationality), CheckedQ)
  /\ checked.reason = AllConstraintReason

\* the reason starts with the text
ReasonStarts(text) ==
  /\ Len(checked.reason) >= Len(text)
  /\ SubSeq(checked.reason, 1, Len(text)) = text

\* the reason is a name of the call followed by the text
ReasonNamesThen(text) ==
  \E i \in 1..Len(checked.names) : ReasonStarts(checked.names[i] \o text)

WorldCupVerdict ==
  \/ checked.ok /\ checked.reason = <<"A","l","l"," ","p","l","a","y","e","r","s"," ","h","a","v","e"," ","W","o","r","l","d"," ","C","u","p"," ","a","p","p","e","a","r","a","n","c","e","s",".">>
  \/ ~checked.ok /\ ReasonNamesThen(<<" ","n","e","v","e","r"," ","p","l","a","y","e","d"," ","i","n"," ","a"," ","W","o","r","l","d"," ","C","u","p",".">>)

TrebleVerdict ==
  \/ checked.ok /\ ReasonStarts(<<"A","l","l"," ","p","l","a","y","e","r","s"," ","w","o","n"," ","a"," ","t","r","e","b","l","e">>)
  \/ ~checked.ok /\ ReasonNamesThen(<<" ","d","i","d"," ","n","o","t"," ","w","i","n"," ","a"," ","t","r","e","b","l","e">>)

ClubVerdict ==
  \/ checked.ok /\ ReasonStarts(<<"A","l","l"," ","p","l","a","y","e","r","s"," ","p","l","a","y","e","d"," ","f","o","r"," ">>)
  \/ ~checked.ok /\ ReasonNamesThen(<<" ","d","i","d"," ","n","o","t"," ","p","l","a","y"," ","f","o","r"," ">>)

NationalityVerdict ==
  \/ checked.ok /\ checked.reason = <<"A","l","l"," ","p","l","a","y","e","r","s"," ","m","a","t","c","h"," ","t","h","e"," ","n","a","t","i","o","n","a","l","i","t","y"," ","c","o","n","s","t","r","a","i","n","t",".">>
  \/ ~checked.ok /\ ReasonNamesThen(<<" ","i","s"," ","n","o","t"," ">>)

UnsupportedVerdict ==
  ~checked.ok /\ checked.reason = <<"R","u","l","e","-","b","a","s","e","d"," ","c","h","e","c","k","e","r"," ","d","o","e","s"," ","n","o","t"," ","s","u","p","p","o","r","t"," ","t","h","i","s"," ","q","u","e","s","t","i","o","n"," ","t","y","p","e",".">>

\* C15: a question containing "all" is answered by the first shape it matches in
\* the order world cup, treble, played for/club, national/are (seen on calls
\* whose names are all known), and by the unsupported-question-type verdict
\* when it matches none.
C15_FirstMatchingShape ==
  (CheckedNames /\ Contains(<<"a","l","l">>, CheckedQ))
     => IF Contains(<<"w","o","r","l","d"," ","c","u","p">>, CheckedQ) THEN AllKnown => WorldCupVerdict
        ELSE IF Contains(<<"t","r","e","b","l","e">>, CheckedQ) THEN AllKnown => TrebleVerdict
        ELSE IF Contains(<<"p","l","a","y","e","d"," ","f","o","r">>, CheckedQ) \/ Contains(<<"c","l","u","b">>, CheckedQ)
        THEN AllKnown => ClubVerdict
        ELSE IF Contains(<<"n","a","t","i","o","n","a","l">>, CheckedQ) \/ Contains(<<"a","r","e">>, CheckedQ)
        THEN AllKnown => NationalityVerdict
        ELSE UnsupportedVerdict

\* a question matching the world cup and the treble shape, about treble winners
C15_Witness ==
  /\ CheckedNames /\ AllKnown
  /\ Contains(<<"a","l","l">>, CheckedQ)
  /\ Contains(<<"w","o","r","l","d"," ","c","u","p">>, CheckedQ) /\ Contains(<<"t","r","e","b","l","e">>, CheckedQ)
  /\ \A i \in 1..Len(checked.names) :
        FirstTreble(Get(name_index, checked.names[i]).honors, None) # <<>>
  /\ WorldCupVerdict

\* ------------------------------------------------------------------------
\* normalize and build_ngrams applied to bounded inputs (TextSpec)
\* ------------------------------------------------------------------------
\* upper case, lower case, digit, space, punctuation
TextChars == {"A", "b", "1", " ", "-"}

\* longest text passed to normalize
MaxTextLen == 3

Texts == SeqsUpTo(TextChars, MaxTextLen)

\* token texts: capitalised, with punctuation, punctuation only
NgramTokens ==
  {Token(<<"K","y","l","i","a","n">>, 0, 1, 90), Token(<<"M","b","a","p","p","e",",">>, 1, 2, 80), Token(<<"-","-">>, 2, 3, 60)}

\* longest token list passed to build_ngrams
MaxNgramTokens == 3

\* largest max_n passed to build_ngrams
MaxN == 3

NgramArgs ==
  [tokens : SeqsUpTo(NgramTokens, MaxNgramTokens), min_n : 1..2, max_n : 1..MaxN]

TextInit ==
  /\ ProcIdle
  /\ pc = "start"
  /\ scorer = "fallback"
  /\ profile = NoProfile
  /\ dataset = <<>>
  /\ players_by_name = EmptyDict
  /\ all_names = <<>>
  /\ search_cache = EmptyDict
  /\ cache_params = {}
  /\ ncalls = 0
  /\ call = NoCall
  /\ prev = NoCall
  /\ name_index = EmptyDict
  /\ checked = NoCheck
  /\ applied = NoApply

\* normalize(text)
Normalize ==
  /\ applied = NoApply
  /\ \E text \in Texts :
        applied' = [op |-> "normalize", input |-> text, output |-> normalize(text)]
  /\ UNCHANGED <<matchVars, evalVars, procVars>>

\* build_ngrams(tokens, min_n, max_n)
BuildNgrams ==
  /\ applied = NoApply
  /\ \E a \in NgramArgs :
        applied' = [op |-> "build_ngrams", input |-> a,
                    output |-> build_ngrams(a.tokens, a.min_n, a.max_n)]
  /\ UNCHANGED <<matchVars, evalVars, procVars>>

TextNext == Normalize \/ BuildNgrams

TextSpec == TextInit /\ [][TextNext]_vars

\* the windows (n, i) of a token list: n in [min_n, max_n], 0 <= i <= len - n
NgramWindows(a) ==
  {w \in (a.min_n..a.max_n) \X (0..Len(a.tokens)) : w[2] <= Len(a.tokens) - w[1]}

\* the normalized tokens of window (n, i) joined by single spaces
JoinedText(a, w) ==
  join([k \in 1..w[1] |-> normalize(a.tokens[w[2] + k].token)], <<" ">>)

\* text and index span of every emitted n-gram
EmittedSpans(ngrams) ==
  {<<ngrams[k].chunk, ngrams[k].start_idx, ngrams[k].end_idx>> : k \in 1..Len(ngrams)}

\* C16: build_ngrams emits exactly one n-gram per window (n, i), with span
\* (i, i+n-1) and as text the window's normalized tokens joined by single
\* spaces, leaving out only the windows whose joined text is empty.
C16_OneNgramPerWindow ==
  applied.op = "build_ngrams"
     => LET a == applied.input
            kept == {w \in NgramWindows(a) : JoinedText(a, w) # <<>>}
        IN  /\ EmittedSpans(applied.output)
                 = {<<JoinedText(a, w), w[2], w[2] + w[1] - 1>> : w \in kept}
            /\ Len(applied.output) = Cardinality(kept)

\* C16 (amended): build_ngrams emits exactly one n-gram per window (n, i), with
\* span (i, i+n-1) and as text the window's normalized tokens joined by single
\* spaces and stripped of leading and trailing spaces, leaving out only the
\* windows whose stripped text is empty.
C16_OneNgramPerWindowStripped ==
  applied.op = "build_ngrams"
     => LET a == applied.input
            kept == {w \in NgramWindows(a) : strip(JoinedText(a, w)) # <<>>}
        IN  /\ EmittedSpans(applied.output)
                 = {<<strip(JoinedText(a, w)), w[2], w[2] + w[1] - 1>> : w \in kept}
            /\ Len(applied.output) = Cardinality(kept)

\* three non-empty tokens, two of them equal, with min_n=1, max_n=2: 5 n-grams
C16_Witness ==
  /\ applied.op = "build_ngrams"
  /\ Len(applied.input.tokens) = 3
  /\ applied.input.min_n = 1 /\ applied.input.max_n = 2
  /\ \A k \in 1..3 : normalize(applied.input.tokens[k].token) # <<>>
  /\ applied.input.tokens[1] = applied.input.tokens[3]
  /\ Len(applied.output) = 5

\* C17: normalize returns a string for every text, and normalizing the result
\* again gives the same string.
C17_NormalizeIdempotent ==
  applied.op = "normalize"
     => /\ applied.output \in Seq(WordChars \cup {" "})
        /\ normalize(applied.output) = applied.output

\* a text with an upper-case letter and punctuation that normalize changes
C17_Witness ==
  /\ applied.op = "normalize"
  /\ InList("A", applied.input) /\ InList("-", applied.input)
  /\ applied.output # applied.input
  /\ applied.output # <<>>

\* ------------------------------------------------------------------------
\* Malformed dataset lines (LoadSpec)
\* ------------------------------------------------------------------------
\* the lines whose record is stored under some key
IndexedLines ==
  {i \in 1..Len(dataset) : \E key \in DOMAIN players_by_name : StoredUnder(key, i)}

\* C18: load_players does not abort on any file content; the lines that are
\* blank, not JSON, not a JSON object or without name and full_name are
\* skipped and every other record of the file is indexed.
C18_UnusableLinesSkipped ==
  pc # "start"
     => /\ pc = "ready"
        /\ IndexedLines = {i \in 1..Len(dataset) : HasName(dataset[i])}

\* ------------------------------------------------------------------------
\* asr_steps/common.py: prompt name selection
\* ------------------------------------------------------------------------
\* load_player_database: name or full_name, lower-cased, and its last word -> player
RECURSIVE PlayerDatabaseLines(_, _, _)
PlayerDatabaseLines(players, lines, i) ==
  IF i > Len(lines) THEN players
  ELSE IF lines[i].kind # "object" THEN PlayerDatabaseLines(players, lines, i + 1)
  ELSE LET player == lines[i].obj
           name == Or(player.name, player.full_name)
           parts == split(name)
           p1 == DictPut(players, lower(name), player)
           p2 == IF Len(parts) > 1 THEN DictPut(p1, lower(parts[Len(parts)]), player) ELSE p1
       IN  IF Truthy(name) THEN PlayerDatabaseLines(p2, lines, i + 1)
           ELSE PlayerDatabaseLines(players, lines, i + 1)

load_player_database(lines) == PlayerDatabaseLines(EmptyDict, lines, 1)

\* load_known_names: the set of the "name" values; list(set(names)) has no fixed order
load_known_names(lines) ==
  LET player_db == load_player_database(lines)
  IN  {player_db[k].name : k \in {x \in DOMAIN player_db : Truthy(player_db[x].name)}}

\* the orders a list made from a set can have
ListsOfSet(S) ==
  {s \in [1..Cardinality(S) -> S] : \A i, j \in 1..Cardinality(S) : i # j => s[i] # s[j]}

\* load_knowledge on a .jsonl file: rows with name = name or full_name
RECURSIVE load_knowledge(_)
load_knowledge(objs) ==
  IF objs = <<>> THEN <<>>
  ELSE LET obj == Head(objs)
           name == Or(obj.name, obj.full_name)
       IN  (IF Truthy(name) THEN <<[obj EXCEPT !.name = name]>> ELSE <<>>)
           \o load_knowledge(Tail(objs))

PhraseStripChars == {" ", "?", ".", "!", ",", ":", ";"}

\* extract_phrase(question, keyword); None when absent or empty
extract_phrase(question, keyword) ==
  IF ~Contains(keyword, question) THEN None
  ELSE LET tail == strip_chars(AfterFirst(question, keyword), PhraseStripChars)
       IN  IF tail = <<>> THEN None ELSE tail

\* any(k in s for k in keys)
AnyIn(keys, s) == \E k \in keys : Contains(k, s)

\* str(v) of a club_history entry, a dict of strings
StrOfEntry(e) ==
  <<"{","'","c","l","u","b","'",":"," ","'">> \o e.club \o <<"'",","," ","'","f","r","o","m","'",":"," ","'">> \o e.from \o <<"'",","," ","'","t","o","'",":"," ","'">> \o e.to \o <<"'","}">>

\* the clubs list built from "clubs", "club_history", "club", "current_club"
ClubStrings(player) ==
  [i \in 1..Len(player.clubs) |-> lower(player.clubs[i])]
  \o [i \in 1..Len(player.club_history) |-> lower(StrOfEntry(player.club_history[i]))]
  \o (IF player.club # None THEN <<lower(player.club)>> ELSE <<>>)
  \o (IF player.current_club # None THEN <<lower(player.current_club)>> ELSE <<>>)

LeagueTargets ==
  {<<"e","n","g","l","i","s","h"," ","p","r","e","m","i","e","r"," ","l","e","a","g","u","e">>, <<"e","n","g"," ","p","r","e","m","i","e","r"," ","l","e","a","g","u","e">>, <<"p","r","e","m","i","e","r"," ","l","e","a","g","u","e">>, <<"g","b","1">>}

\* score_player(question, player)[0]
score_player(question, player) ==
  LET q == lower(question)
      position == lower(Or(player.position, <<>>))
      nationality == lower(Or(player.nationality, <<>>))
      clubs == ClubStrings(player)
      club_phrase == Or(extract_phrase(q, <<"p","l","a","y","e","d"," ","f","o","r">>), extract_phrase(q, <<"p","l","a","y"," ","f","o","r">>))
      league == lower(Or(player.league, <<>>))
      leagues == [i \in 1..Len(player.leagues) |-> lower(player.leagues[i])]
      league_targets == IF Contains(<<"e","n","g","l","i","s","h"," ","p","r","e","m","i","e","r"," ","l","e","a","g","u","e">>, q) \/ Contains(<<"p","r","e","m","i","e","r"," ","l","e","a","g","u","e">>, q)
                        THEN LeagueTargets ELSE {}
      Role(qkeys, pkeys, gain) ==
        IF AnyIn(qkeys, q)
        THEN IF AnyIn(pkeys, position) THEN gain
             ELSE IF position # <<>> THEN -1 ELSE 0
        ELSE 0
  IN  (IF nationality # <<>> /\ Contains(nationality, q) THEN 3 ELSE 0)
      + (IF Truthy(club_phrase) /\ \E i \in 1..Len(clubs) : Contains(club_phrase, clubs[i])
         THEN 4 ELSE 0)
      + (IF league # <<>> /\ (Contains(league, q) \/ \E t \in league_targets : Contains(t, league))
         THEN 3 ELSE 0)
      + (IF \/ \E i \in 1..Len(leagues) : Contains(leagues[i], q)
            \/ \E i \in 1..Len(leagues) : \E t \in league_targets : Contains(t, leagues[i])
         THEN 3 ELSE 0)
      + (IF position # <<>> /\ Contains(position, q) THEN 1 ELSE 0)
      + (IF AnyIn({<<"g","o","a","l","k","e","e","p","e","r">>, <<"k","e","e","p","e","r">>}, q)
            /\ (Contains(<<"g","o","a","l">>, position) \/ position = <<"g","k">>)
         THEN 2 ELSE 0)
      + Role({<<"d","e","f","e","n","d","e","r">>, <<"d","e","f","e","n","c","e">>, <<"d","e","f","e","n","s","e">>, <<"c","b">>, <<"l","b">>, <<"r","b">>, <<"f","u","l","l","b","a","c","k">>, <<"f","u","l","l","-","b","a","c","k">>},
             {<<"d","e","f">>, <<"c","b">>, <<"l","b">>, <<"r","b">>, <<"l","w","b">>, <<"r","w","b">>, <<"b","a","c","k">>}, 5)
      + Role({<<"m","i","d","f","i","e","l","d","e","r">>, <<"m","i","d","f","i","e","l","d">>, <<"c","m">>, <<"d","m">>, <<"a","m">>}, {<<"m","i","d">>, <<"c","m">>, <<"d","m">>, <<"a","m">>}, 3)
      + Role({<<"f","o","r","w","a","r","d">>, <<"s","t","r","i","k","e","r">>, <<"w","i","n","g","e","r">>, <<"a","t","t","a","c","k">>}, {<<"f","o","r">>, <<"w","i","n","g">>, <<"a","t","t">>, <<"s","t">>}, 3)

\* score_player(question, player)[1]
FameOf(player) == player.fame_score

\* the sort key (score, fame, name.lower()) of one scored entry is greater
ScoredKeyGreater(a, b) ==
  \/ a.score > b.score
  \/ a.score = b.score /\ a.fame > b.fame
  \/ a.score = b.score /\ a.fame = b.fame /\ StrLess(lower(b.player.name), lower(a.player.name))

\* scored.sort(key=..., reverse=True): a stable sort, greatest key first
SortScored(scored) ==
  LET n == Len(scored)
      Before(j, i) == \/ ScoredKeyGreater(scored[j], scored[i])
                      \/ ~ScoredKeyGreater(scored[i], scored[j]) /\ j < i
  IN  [r \in 1..n |->
         scored[CHOOSE i \in 1..n : Cardinality({j \in 1..n : Before(j, i)}) = r - 1]]

\* [p.get("name") for p in list if p.get("name")]
RECURSIVE NamesOf(_)
NamesOf(players) ==
  IF players = <<>> THEN <<>>
  ELSE (IF Truthy(Head(players).name) THEN <<Head(players).name>> ELSE <<>>)
       \o NamesOf(Tail(players))

\* [p for s, f, p in scored if s > 0]
RECURSIVE PositiveOnes(_)
PositiveOnes(scored) ==
  IF scored = <<>> THEN <<>>
  ELSE (IF Head(scored).score > 0 THEN <<Head(scored).player>> ELSE <<>>)
       \o PositiveOnes(Tail(scored))

\* [n.split()[-1] for n in names if n.split()]
RECURSIVE LastNames(_)
LastNames(names) ==
  IF names = <<>> THEN <<>>
  ELSE LET parts == split(Head(names))
       IN  (IF parts # <<>> THEN <<parts[Len(parts)]>> ELSE <<>>) \o LastNames(Tail(names))

Returned(names) == [raised |-> FALSE, names |-> names]

\* select_prompt_names: the outcomes the call can have (one, or one per order
\* of the fallback set); raised when load_player_database meets a line that
\* is not an object
select_prompt_names(question, knowledge, fallback, limit, last_names_only) ==
  IF Truthy(question) /\ knowledge.path = "file"
  THEN LET candidates == load_knowledge(knowledge.rows)
           scored == SortScored([i \in 1..Len(candidates) |->
                        [score |-> score_player(question, candidates[i]),
                         fame |-> FameOf(candidates[i]),
                         player |-> candidates[i]]])
           filtered == PositiveOnes(scored)
           names == IF filtered # <<>> THEN NamesOf(filtered) ELSE NamesOf(candidates)
       IN  {Returned(Slice(IF last_names_only THEN LastNames(names) ELSE names, limit))}
  ELSE IF Raises(fallback) THEN {[raised |-> TRUE, names |-> <<>>]}
  ELSE {Returned(Slice(IF last_names_only THEN LastNames(names) ELSE names, limit)) :
          names \in ListsOfSet(load_known_names(fallback))}

\* ------------------------------------------------------------------------
\* select_prompt_names applied to bounded inputs (PromptSpec)
\* ------------------------------------------------------------------------
\* one object of the knowledge file
KnowRow(name, full_name, nationality, clubs, club_history, club, position, fame_score) ==
  [name |-> name, full_name |-> full_name, nationality |-> nationality, clubs |-> clubs,
   club_history |-> club_history, club |-> club, current_club |-> None,
   league |-> None, leagues |-> <<>>, position |-> position, fame_score |-> fame_score]

R_puyol == KnowRow(<<"P","u","y","o","l">>, None, <<"S","p","a","i","n">>, <<<<"B","a","r","c","e","l","o","n","a">>>>, <<>>, None, <<"D","e","f","e","n","d","e","r">>, 80)

\* same score and fame as Puyol for every question
R_pique == KnowRow(<<"P","i","q","u","e">>, None, <<"S","p","a","i","n">>, <<<<"B","a","r","c","e","l","o","n","a">>>>, <<>>, None, <<"D","e","f","e","n","d","e","r">>, 80)

R_ronaldo == KnowRow(<<"C","r","i","s","t","i","a","n","o"," ","R","o","n","a","l","d","o">>, None, <<"P","o","r","t","u","g","a","l">>, <<>>, <<>>, <<"R","e","a","l"," ","M","a","d","r","i","d">>, <<"F","o","r","w","a","r","d">>, 99)

\* full_name only; the club only in club_history
R_pedri ==
  KnowRow(None, <<"P","e","d","r","i"," ","G","o","n","z","a","l","e","z">>, None, <<>>, <<HistoryEntry(<<"B","a","r","c","e","l","o","n","a">>, <<"2","0","2","0">>, <<"2","0","2","4">>)>>,
          None, <<"M","i","d","f","i","e","l","d","e","r">>, 50)

KnowRows == {R_puyol, R_pique, R_ronaldo, R_pedri}

\* longest knowledge file
MaxRows == 3

NoPath == [path |-> "none", rows |-> <<>>]

\* knowledge_path names a file that does not exist
MissingFile == [path |-> "missing", rows |-> <<>>]

KnowledgeFile(rows) == [path |-> "file", rows |-> rows]

PromptQuestions ==
  {<<"W","h","i","c","h"," ","d","e","f","e","n","d","e","r","s"," ","p","l","a","y","e","d"," ","f","o","r"," ","B","a","r","c","e","l","o","n","a","?">>, <<"N","a","m","e"," ","t","h","e"," ","f","o","r","w","a","r","d","s"," ","f","r","o","m"," ","P","o","r","t","u","g","a","l">>}

\* the lines of the fallback player dataset
FallbackLines ==
  {BlankLine, NonObjectLine, ObjectLine(P_david), ObjectLine(P_bernardo),
   ObjectLine(P_ake), ObjectLine(P_messi)}

\* longest fallback dataset
MaxFallbackLines == 2

\* the limit values: shorter than the lists, and at least as long
Limits == {1, 3}

\* calls with a question and a knowledge file; calls that lack one of them
PromptArgs ==
  [question : PromptQuestions,
   knowledge : {KnowledgeFile(rows) : rows \in SeqsUpTo(KnowRows, MaxRows)},
   fallback : {<<ObjectLine(P_david)>>},
   limit : Limits, last_names_only : BOOLEAN]
  \cup
  [question : {None, <<>>} \cup PromptQuestions,
   knowledge : {NoPath, MissingFile, KnowledgeFile(<<R_puyol>>)},
   fallback : SeqsUpTo(FallbackLines, MaxFallbackLines),
   limit : Limits, last_names_only : BOOLEAN]

PromptInit == TextInit

\* select_prompt_names(question, knowledge_path, fallback_db_path, limit, last_names_only)
SelectPromptNames ==
  /\ applied = NoApply
  /\ \E a \in PromptArgs :
        \E out \in select_prompt_names(a.question, a.knowledge, a.fallback, a.limit,
                                       a.last_names_only) :
           applied' = [op |-> "select_prompt_names", input |-> a, output |-> out]
  /\ UNCHANGED <<matchVars, evalVars, procVars>>

PromptNext == SelectPromptNames

PromptSpec == PromptInit /\ [][PromptNext]_vars

Selected == applied.op = "select_prompt_names"

\* the call has a question and an existing knowledge file
KnowledgeCall ==
  Selected /\ Truthy(applied.input.question) /\ applied.input.knowledge.path = "file"

\* the knowledge rows with their relevance score and fame
ScoredRows ==
  LET rows == load_knowledge(applied.input.knowledge.rows)
  IN  [i \in 1..Len(rows) |->
         [score |-> score_player(applied.input.question, rows[i]),
          fame |-> FameOf(rows[i]), name |-> rows[i].name]]

\* a comes before b: relevance descending, then fame descending, then name ascending
RanksBefore(a, b) ==
  \/ a.score > b.score
  \/ a.score = b.score /\ a.fame > b.fame
  \/ a.score = b.score /\ a.fame = b.fame /\ StrLess(lower(a.name), lower(b.name))

\* the names of the positively scored rows in that order
RankedNames ==
  LET pos == {i \in 1..Len(ScoredRows) : ScoredRows[i].score > 0}
      Before(j, i) == \/ RanksBefore(ScoredRows[j], ScoredRows[i])
                      \/ ~RanksBefore(ScoredRows[i], ScoredRows[j]) /\ j < i
  IN  [r \in 1..Cardinality(pos) |->
         ScoredRows[CHOOSE i \in pos :
                      Cardinality({j \in pos : Before(j, i)}) = r - 1].name]

\* C19: with a question, a knowledge file and at least one positively scored
\* entry, select_prompt_names (last_names_only off) returns the names of the
\* positively scored entries ordered by relevance descending, then fame
\* descending, then name ascending, cut to limit.
C19_PositiveEntriesRanked ==
  (KnowledgeCall /\ ~applied.input.last_names_only /\ RankedNames # <<>>)
     => /\ ~applied.output.raised
        /\ applied.output.names = Slice(RankedNames, applied.input.limit)

\* the canonical names (name, or full_name) of the fallback dataset's records
FallbackCanonicalNames ==
  {Or(applied.input.fallback[i].obj.name, applied.input.fallback[i].obj.full_name) :
     i \in {k \in 1..Len(applied.input.fallback) : HasName(applied.input.fallback[k])}}

\* C20: without a question or without a knowledge file, select_prompt_names
\* (last_names_only off, limit not below the number of records) returns every
\* distinct canonical name of the fallback dataset exactly once.
C20_FallbackNamesOnce ==
  (Selected /\ ~KnowledgeCall /\ ~applied.input.last_names_only
   /\ applied.input.limit >= Len(applied.input.fallback))
     => /\ ~applied.output.raised
        /\ Range(applied.output.names) = FallbackCanonicalNames
        /\ Len(applied.output.names) = Cardinality(FallbackCanonicalNames)

\* ---------------------------------------------------------------------
\* Building the atempo filter chain: audio._build_atempo_chain,
\* transcribe_clip.build_atempo_chain and the loop inside
\* verify_names.extract_audio.  One loop iteration is one step.
\* ---------------------------------------------------------------------

\* filters a loop may append before the model stops following it
MaxFilters == 8

ChainBuilders == {"_build_atempo_chain", "build_atempo_chain", "extract_audio"}

\* the two builder functions open with `if speed <= 0: raise ValueError`;
\* the loop inside verify_names.extract_audio has no such test
Guarded(fn) == fn # "extract_audio"

\* the state on entry: the ValueError of the guarded builders, the
\* `if slowdown != 1.0` of extract_audio, else the first loop
EnterChain(fn, speed) ==
  LET entered == [pc |-> "slow", fn |-> fn, speed |-> speed, remaining |-> speed,
                  filters |-> <<>>, result |-> <<>>]
  IN  IF Guarded(fn) /\ FloatLessEq(speed, Zero)
        THEN [entered EXCEPT !.pc = "raised"]
      ELSE IF ~Guarded(fn) /\ FloatEq(speed, One)
        THEN [entered EXCEPT !.pc = "returned"]
      ELSE entered

\* while remaining < 0.5: filters.append(0.5); remaining /= 0.5
SlowLoop ==
  /\ chain.pc = "slow"
  /\ IF FloatLess(chain.remaining, Half)
       THEN /\ Len(chain.filters) < MaxFilters
            /\ chain' = [chain EXCEPT !.filters = Append(@, Half),
                                      !.remaining = TrueDiv(@, Half)]
       ELSE chain' = [chain EXCEPT !.pc = "fast"]
  /\ UNCHANGED <<matchVars, evalVars, fnVars, run, uiVars>>

\* while remaining > 2.0: filters.append(2.0); remaining /= 2.0
\* then filters.append(remaining) and the join of the formatted factors
FastLoop ==
  /\ chain.pc = "fast"
  /\ IF FloatLess(Two, chain.remaining)
       THEN /\ Len(chain.filters) < MaxFilters
            /\ chain' = [chain EXCEPT !.filters = Append(@, Two),
                                      !.remaining = TrueDiv(@, Two)]
       ELSE LET filters == Append(chain.filters, chain.remaining)
            IN  chain' = [chain EXCEPT
                             !.pc = "returned",
                             !.filters = filters,
                             !.result = [i \in 1..Len(filters) |-> Format3(filters[i])]]
  /\ UNCHANGED <<matchVars, evalVars, fnVars, run, uiVars>>

\* a call of one of the builders with a speed from the command line
BuildAtempoChain(fn, speed) ==
  /\ chain.pc = "idle"
  /\ run.pc = "idle"
  /\ chain' = EnterChain(fn, speed)
  /\ UNCHANGED <<matchVars, evalVars, fnVars, run, uiVars>>

\* values argparse's type=float accepts for --slowdown
Slowdowns ==
  {Zero, One, Half, Two, NaN, Inf(1), Inf(0 - 1),
   Num(0 - 1, 0), Num(0 - 3, 0 - 1),
   Num(1, 0 - 2), Num(3, 0 - 2), Num(3, 0 - 3), Num(1, 0 - 4), Num(9, 0 - 4),
   Num(3, 0), Num(5, 0), Num(1, 3), Num(1, 4), Num(25, 0 - 3)}

AtempoInit == TextInit

AtempoNext ==
  \/ \E fn \in ChainBuilders, speed \in Slowdowns : BuildAtempoChain(fn, speed)
  \/ SlowLoop
  \/ FastLoop

\* the interpreter keeps executing a running loop
AtempoSpec ==
  AtempoInit /\ [][AtempoNext]_vars /\ WF_vars(SlowLoop) /\ WF_vars(FastLoop)

ChainBuilding == chain.pc \in {"slow", "fast"}

ChainDone == chain.pc \in {"returned", "raised"}

FactorsInRange ==
  \A i \in 1..Len(chain.result) :
     /\ chain.result[i].kind = "num"
     /\ chain.result[i].milli >= 500
     /\ chain.result[i].milli <= 2000

\* C30: building the atempo filter chain terminates for every slowdown the
\* command line can pass, zero and negative values included: the call
\* returns a chain whose factors all lie in [0.5, 2.0] or raises an error
C30_AtempoChainTerminates ==
  /\ [](chain.pc = "returned" => FactorsInRange)
  /\ (ChainBuilding ~> ChainDone)

\* ---------------------------------------------------------------------
\* verify_names.run_pipeline: extract_audio, transcribe_audio,
\* extract_names_from_transcript, verify_with_llm.  A step is the part of
\* the function up to and including its next call of a collaborator.
\* ---------------------------------------------------------------------

\* the arguments that decide the control flow: the slowdown, whether start
\* and end parse as timestamps, the ASR choice, --question-filter, and
\* whether llm_provider is one of the four known providers
PipelineSlowdowns == {One, Half, Num(1, 0 - 2), Num(5, 0), Zero}

PipelineArgs ==
  [slowdown : PipelineSlowdowns, timestamps : {"ok", "bad"},
   use_gemini_asr : BOOLEAN, question_filter : BOOLEAN, provider_known : BOOLEAN]

\* return VerificationResult(..., all_valid=..., errors=errors)
ReturnResult(r, valid) == [r EXCEPT !.pc = "done", !.outcome = "result", !.all_valid = valid]

\* an exception no handler of run_pipeline catches
Propagate(r, stage) == [r EXCEPT !.pc = "done", !.outcome = "raised", !.failed = stage]

\* run_pipeline up to the atempo loop of extract_audio: parse_timestamp
\* raises ValueError on text that is not a number, and the handler around
\* extract_audio catches subprocess.CalledProcessError only
RunPipeline(args) ==
  /\ run.pc = "idle"
  /\ chain.pc = "idle"
  /\ IF args.timestamps = "bad"
       THEN /\ run' = Propagate([run EXCEPT !.args = args], "extract_audio")
            /\ UNCHANGED chain
       ELSE /\ run' = [run EXCEPT !.pc = "extract_audio", !.args = args]
            /\ chain' = EnterChain("extract_audio", args.slowdown)
  /\ UNCHANGED <<matchVars, evalVars, fnVars, uiVars>>

\* extract_audio after the filter chain: subprocess.run(cmd, check=True)
\* exits 0, raises CalledProcessError (non-zero exit) or FileNotFoundError
\* (no ffmpeg executable)
ExtractAudio(result) ==
  /\ run.pc = "extract_audio"
  /\ chain.pc = "returned"
  /\ LET called == [run EXCEPT !.invoked = Append(@, "transcoder")]
     IN  run' =
           CASE result = "ok" -> [called EXCEPT !.pc = "transcribe"]
             [] result = "CalledProcessError" ->
                  ReturnResult([called EXCEPT
                                  !.errors = Append(@, "Failed to extract audio"),
                                  !.failed = "extract_audio"], FALSE)
             [] result = "FileNotFoundError" -> Propagate(called, "extract_audio")
  /\ UNCHANGED <<matchVars, evalVars, fnVars, chain, uiVars>>

ExtractResults == {"ok", "CalledProcessError", "FileNotFoundError"}

\* the try block around transcribe_audio: _select_prompt_names when Whisper
\* is used with --question-filter, then the engine; every Exception is caught
Transcribe(result) ==
  /\ run.pc = "transcribe"
  /\ result = "prompt_error" => (~run.args.use_gemini_asr /\ run.args.question_filter)
  /\ LET failure(r) == ReturnResult([r EXCEPT
                                       !.errors = Append(@, "Transcription failed"),
                                       !.failed = "transcribe"], FALSE)
         called == [run EXCEPT !.invoked = Append(@, "speech_to_text")]
     IN  run' =
           CASE result = "prompt_error" -> failure(run)
             [] result = "setup_error" -> failure(run)
             [] result = "engine_error" -> failure(called)
             [] result = "ok" -> [called EXCEPT !.pc = "extract_names"]
  /\ UNCHANGED <<matchVars, evalVars, fnVars, chain, uiVars>>

TranscribeResults == {"prompt_error", "setup_error", "engine_error", "ok"}

\* extract_names_from_transcript, and the early return when no name is found
ExtractNames(found) ==
  /\ run.pc = "extract_names"
  /\ run' = IF found THEN [run EXCEPT !.pc = "verify"] ELSE ReturnResult(run, FALSE)
  /\ UNCHANGED <<matchVars, evalVars, fnVars, chain, uiVars>>

\* verify_with_llm inside try/except Exception, then the verified_names
\* loop and the final return; an unknown provider raises ValueError before
\* any LLM is called
VerifyWithLlm(result) ==
  /\ run.pc = "verify"
  /\ result = "unknown_provider" <=> ~run.args.provider_known
  /\ LET failure(r) == ReturnResult([r EXCEPT
                                       !.errors = Append(@, "LLM verification failed"),
                                       !.failed = "verify_with_llm"], FALSE)
         called == [run EXCEPT !.invoked = Append(@, "llm")]
     IN  run' =
           CASE result = "unknown_provider" -> failure(run)
             [] result = "llm_error" -> failure(called)
             [] result = "all_valid" -> ReturnResult(called, TRUE)
             [] result = "not_all_valid" -> ReturnResult(called, FALSE)
  /\ UNCHANGED <<matchVars, evalVars, fnVars, chain, uiVars>>

VerifyResults == {"unknown_provider", "llm_error", "all_valid", "not_all_valid"}

PipelineInit == TextInit

PipelineNext ==
  \/ \E args \in PipelineArgs : RunPipeline(args)
  \/ SlowLoop
  \/ FastLoop
  \/ \E result \in ExtractResults : ExtractAudio(result)
  \/ \E result \in TranscribeResults : Transcribe(result)
  \/ \E found \in BOOLEAN : ExtractNames(found)
  \/ \E result \in VerifyResults : VerifyWithLlm(result)

PipelineSpec == PipelineInit /\ [][PipelineNext]_vars

StageOrder == <<"transcoder", "speech_to_text", "llm">>

StagePosition(stage) == CHOOSE k \in 1..Len(StageOrder) : StageOrder[k] = stage

InvokedOnceInOrder ==
  \A i, j \in 1..Len(run.invoked) :
     i < j => StagePosition(run.invoked[i]) < StagePosition(run.invoked[j])

NothingAfterFailure ==
  /\ run.failed = "extract_audio" =>
        \A i \in 1..Len(run.invoked) : run.invoked[i] = "transcoder"
  /\ run.failed = "transcribe" =>
        \A i \in 1..Len(run.invoked) : run.invoked[i] # "llm"

FailureReported ==
  run.failed \in {"extract_audio", "transcribe"} =>
     /\ run.outcome = "result"
     /\ ~run.all_valid
     /\ run.errors # <<>>

\* C21: run_pipeline invokes the transcoder, the speech-to-text engine and
\* the LLM at most once each and in that order; when audio extraction or
\* transcription fails no later stage is invoked and the returned result
\* has all_valid = false with the failure recorded in errors
C21_StagesOnceAndFailuresReported ==
  InvokedOnceInOrder /\ NothingAfterFailure /\ FailureReported

\* ---------------------------------------------------------------------
\* Reading an LLM reply: eval.LLMConditionChecker.check and the
\* /api/run-llm handler of integrated_ui.py (with verify_with_llm and
\* _parse_llm_response of verify_names.py behind it).
\* A reply is its text together with what json.loads makes of it: an
\* object, another JSON value, or a JSONDecodeError.  "error" is a call of
\* the client that raised.
\* ---------------------------------------------------------------------
Reply(kind, text, obj) == [kind |-> kind, text |-> text, obj |-> obj]

Replies ==
  {Reply("object", <<"{","\"","a","n","s","w","e","r","\"",":"," ","t","r","u","e",","," ","\"","j","u","s","t","i","f","i","c","a","t","i","o","n","\"",":"," ","\"","o","k","\"","}">>,
         [answer |-> TRUE, justification |-> <<"o","k">>]),
   Reply("object", <<"{","\"","a","n","s","w","e","r","\"",":"," ","f","a","l","s","e","}">>, [answer |-> FALSE]),
   Reply("object", <<"{","\"","a","l","l","_","v","a","l","i","d","\"",":"," ","f","a","l","s","e",","," ","\"","i","n","v","a","l","i","d","_","n","a","m","e","s","\"",":"," ","[","\"","X","a","v","i","\"","]","}">>,
         [all_valid |-> FALSE, invalid_names |-> <<<<"X","a","v","i">>>>]),
   Reply("value", <<"t","r","u","e">>, TRUE),
   Reply("invalid", <<"Y","e","s",","," ","a","l","l"," ","d","i","d">>, None),
   Reply("invalid", <<"T","R","U","E">>, None),
   Reply("invalid", <<"u","n","t","r","u","e">>, None),
   Reply("invalid", <<"N","o">>, None),
   Reply("invalid", <<>>, None),
   Reply("error", <<"t","i","m","e","o","u","t">>, None)}

\* payload.get(key, default) on a parsed object
PayloadGet(obj, key, default) == IF key \in DOMAIN obj THEN obj[key] ELSE default

\* "true" in response.lower() or "yes" in response.lower()
KeywordHeuristic(response) ==
  Contains(<<"t","r","u","e">>, lower(response)) \/ Contains(<<"y","e","s">>, lower(response))

LlmOutcome(raised, ok, reason) == [raised |-> raised, ok |-> ok, reason |-> reason]

\* LLMConditionChecker.check(names, question) when self.llm.ask returns
\* (or raises) `reply`
LLMConditionChecker_check(names, reply) ==
  IF names = <<>> THEN LlmOutcome(FALSE, FALSE, <<"N","o"," ","n","a","m","e","s"," ","e","x","t","r","a","c","t","e","d"," ","f","r","o","m"," ","t","r","a","n","s","c","r","i","p","t",".">>)
  ELSE IF reply.kind = "error" THEN LlmOutcome(TRUE, FALSE, reply.text)
  ELSE IF reply.kind = "invalid"
    THEN LlmOutcome(FALSE, FALSE, <<"L","L","M"," ","r","e","s","p","o","n","s","e"," ","w","a","s"," ","n","o","t"," ","v","a","l","i","d"," ","J","S","O","N",".">>)
  ELSE IF reply.kind = "value"
    THEN LlmOutcome(TRUE, FALSE, <<"'","b","o","o","l","'"," ","o","b","j","e","c","t"," ","h","a","s"," ","n","o"," ","a","t","t","r","i","b","u","t","e"," ","'","g","e","t","'">>)
  ELSE LET justification == PayloadGet(reply.obj, "justification", <<>>)
       IN  LlmOutcome(FALSE, PayloadGet(reply.obj, "answer", FALSE),
                      IF justification = <<>>
                        THEN <<"L","L","M"," ","d","i","d"," ","n","o","t"," ","p","r","o","v","i","d","e"," ","j","u","s","t","i","f","i","c","a","t","i","o","n",".">>
                        ELSE justification)

\* one entry of results in the llm_client branch of api_run_llm
ClientResult(reply) ==
  CASE reply.kind = "error" ->
         [answer |-> FALSE, justification |-> <<"E","r","r","o","r",":"," ">> \o reply.text]
    [] reply.kind = "invalid" ->
         [answer |-> KeywordHeuristic(reply.text), justification |-> reply.text]
    [] OTHER -> reply.obj

\* verify_names._parse_llm_response, for a text without a {...} part when
\* it is not an object: (all_valid, invalid_names), or an AttributeError
parse_llm_response(reply) ==
  CASE reply.kind = "invalid" -> [raised |-> FALSE, all_valid |-> FALSE, invalid_names |-> <<>>]
    [] reply.kind = "value" -> [raised |-> TRUE, all_valid |-> FALSE, invalid_names |-> <<>>]
    [] OTHER -> [raised |-> FALSE,
                 all_valid |-> PayloadGet(reply.obj, "all_valid", FALSE),
                 invalid_names |-> PayloadGet(reply.obj, "invalid_names", <<>>)]

\* results after `for player_name in players: results[player_name] = ...`
ResultsOf(players, entry(_)) ==
  [p \in Range(players) |->
     entry(CHOOSE i \in 1..Len(players) :
              players[i] = p /\ \A j \in (i + 1)..Len(players) : players[j] # p)]

\* api_run_llm: with STATE["llm_client"] one ask per player, replies[i]
\* answering players[i]; without it one verify_with_llm call, answered by
\* replies[1]
api_run_llm(llm_client, players, replies) ==
  IF llm_client
    THEN LET entry(i) == ClientResult(replies[i])
         IN  [status |-> "ok", results |-> ResultsOf(players, entry)]
    ELSE LET reply == replies[1]
             parsed == parse_llm_response(reply)
             entry(i) == [answer |-> ~InList(lower(players[i]),
                                             [k \in 1..Len(parsed.invalid_names) |->
                                                lower(parsed.invalid_names[k])]),
                          justification |-> <<"R","e","a","s","o","n","i","n","g">>]
         IN  IF reply.kind = "error" \/ parsed.raised
               THEN [status |-> "error", results |-> EmptyDict]
               ELSE [status |-> "ok", results |-> ResultsOf(players, entry)]

\* names sent for verification
MaxPlayers == 2

LlmPlayers == SeqsUpTo({<<"M","e","s","s","i">>, <<"X","a","v","i">>}, MaxPlayers)

LlmInit == TextInit

\* LLMConditionChecker.check(names, question)
LlmCheck ==
  /\ applied = NoApply
  /\ \E names \in LlmPlayers, reply \in Replies :
        applied' = [op |-> "LLMConditionChecker.check",
                    input |-> [names |-> names, replies |-> <<reply>>],
                    output |-> LLMConditionChecker_check(names, reply)]
  /\ UNCHANGED <<matchVars, evalVars, procVars>>

\* POST /api/run-llm
ApiRunLlm ==
  /\ applied = NoApply
  /\ \E llm_client \in BOOLEAN, players \in LlmPlayers :
       \E replies \in [1..Max(1, Len(players)) -> Replies] :
          applied' = [op |-> "api_run_llm",
                      input |-> [llm_client |-> llm_client, names |-> players,
                                 replies |-> replies],
                      output |-> api_run_llm(llm_client, players, replies)]
  /\ UNCHANGED <<matchVars, evalVars, procVars>>

LlmNext == LlmCheck \/ ApiRunLlm

LlmSpec == LlmInit /\ [][LlmNext]_vars

\* the reply to the last request made for names[i]
LastFor(i) ==
  /\ i \in 1..Len(applied.input.names)
  /\ \A j \in (i + 1)..Len(applied.input.names) :
        applied.input.names[j] # applied.input.names[i]

CheckUsesHeuristic ==
  (/\ applied.op = "LLMConditionChecker.check"
   /\ applied.input.names # <<>>
   /\ applied.input.replies[1].kind = "invalid")
  => /\ ~applied.output.raised
     /\ applied.output.ok = KeywordHeuristic(applied.input.replies[1].text)

ApiClientUsesHeuristic ==
  (applied.op = "api_run_llm" /\ applied.input.llm_client)
  => \A i \in 1..Len(applied.input.names) :
        (LastFor(i) /\ applied.input.replies[i].kind = "invalid")
        => /\ applied.output.status = "ok"
           /\ applied.output.results[applied.input.names[i]].answer
                = KeywordHeuristic(applied.input.replies[i].text)

ApiProviderUsesHeuristic ==
  (/\ applied.op = "api_run_llm"
   /\ ~applied.input.llm_client
   /\ applied.input.replies[1].kind = "invalid")
  => /\ applied.output.status = "ok"
     /\ \A i \in 1..Len(applied.input.names) :
           applied.output.results[applied.input.names[i]].answer
             = KeywordHeuristic(applied.input.replies[1].text)

\* C22: when the LLM reply is not valid JSON the verification result is
\* derived by the keyword heuristic (answer true exactly when the reply
\* contains "true" or "yes", case-insensitively), in
\* LLMConditionChecker.check and in the /api/run-llm handler
C22_NonJsonReplyUsesKeywordHeuristic ==
  CheckUsesHeuristic /\ ApiClientUsesHeuristic /\ ApiProviderUsesHeuristic

\* ---------------------------------------------------------------------
\* The order in which process_pass works through the n-grams of a pass,
\* with a token that normalizes to the two words two other tokens make up
\* ---------------------------------------------------------------------
OrderDatasets == {<<ObjectLine(P_bernardo), ObjectLine(P_david), ObjectLine(P_ake)>>}

OrderTokens ==
  {Token(<<"D","a","v","i","d">>, 0, 1, 80), Token(<<"S","i","l","v","a",",">>, 1, 2, 90), Token(<<"D","a","v","i","d"," ","S","i","l","v","a">>, 4, 6, 70)}

\* longest token list of an ordering pass
MaxOrderTokens == 3

OrderPassArgs ==
  [pass_num : {1}, tokens : SeqsUpTo(OrderTokens, MaxOrderTokens), min_gram : {1},
   max_gram : {MaxGram}, fuzzy_threshold : {70}, max_suggestions : {MaxSug}]

OrderNext == Start(OrderDatasets) \/ ProcessPass(OrderPassArgs)

OrderSpec == Init /\ [][OrderNext]_vars

\* len(text.split())
WordCount(text) == Len(split(text))

NonIncreasing(counts) ==
  \A i, j \in 1..Len(counts) : i < j => counts[i] >= counts[j]

ProcessedWordCounts == [i \in 1..Len(call.processed) |-> WordCount(call.processed[i].chunk)]

MatchWordCounts == [i \in 1..Len(call.matches) |-> WordCount(call.matches[i].ngram)]

\* C23: within one process_pass call the n-grams are matched, and written
\* to the cache, in non-increasing order of word count, and the returned
\* MatchRecords are in non-increasing word-count order
C23_LongestFirst ==
  Called => NonIncreasing(ProcessedWordCounts) /\ NonIncreasing(MatchWordCounts)

\* a call that matched n-grams of several word counts, one of them a single
\* token of two words, and returned records of several word counts
C23_Witness ==
  /\ Called
  /\ \E i, j \in 1..Len(call.processed) :
        ProcessedWordCounts[i] > ProcessedWordCounts[j]
  /\ \E i \in 1..Len(call.processed) :
        /\ call.processed[i].start_idx = call.processed[i].end_idx
        /\ ProcessedWordCounts[i] = 2
        /\ \E j \in 1..Len(call.processed) :
              /\ call.processed[j].start_idx < call.processed[j].end_idx
              /\ ProcessedWordCounts[j] = 2
              /\ i < j
  /\ \E i, j \in 1..Len(call.matches) : MatchWordCounts[i] > MatchWordCounts[j]
  /\ call.cache_hits > 0

CallNgrams == build_ngrams(call.args.tokens, call.args.min_gram, call.args.max_gram)

WindowSize(ng) == ng.end_idx - ng.start_idx + 1

\* the windows of the pass whose text is `text`
Occurrences(ngrams, text) == {i \in 1..Len(ngrams) : ngrams[i].chunk = text}

\* among them the one of smallest window size, then smallest start index
FirstOccurrence(ngrams, text) ==
  LET occurrences == Occurrences(ngrams, text)
  IN  ngrams[CHOOSE i \in occurrences :
               \A j \in occurrences :
                  \/ WindowSize(ngrams[i]) < WindowSize(ngrams[j])
                  \/ /\ WindowSize(ngrams[i]) = WindowSize(ngrams[j])
                     /\ ngrams[i].start_idx <= ngrams[j].start_idx]

PositionOf(record) ==
  [token_indices |-> record.token_indices, segment_start |-> record.segment_start,
   segment_end |-> record.segment_end, avg_probability |-> record.avg_probability]

\* C24: within one process_pass call at most one MatchRecord is emitted per
\* distinct n-gram text, and its token_indices, segment_start, segment_end
\* and avg_probability are those of the first occurrence of the text in
\* processing order (for equal word count: smallest window size, then
\* smallest start index)
C24_OneRecordPerTextFromFirstOccurrence ==
  Called =>
    /\ \A i, j \in 1..Len(call.matches) :
          call.matches[i].ngram = call.matches[j].ngram => i = j
    /\ \A ngrams \in {CallNgrams} :
         \A i \in 1..Len(call.matches) :
            PositionOf(call.matches[i])
              = PositionOf(MatchRecord(call.args.pass_num,
                                       FirstOccurrence(ngrams, call.matches[i].ngram),
                                       <<>>))

\* call c returned a record whose text is that of a two-token window and of
\* a one-token window further right
RecordAmongSizes(c) ==
  \E ngrams \in {build_ngrams(c.args.tokens, c.args.min_gram, c.args.max_gram)} :
     \E i \in 1..Len(c.matches) :
        \E a, b \in Occurrences(ngrams, c.matches[i].ngram) :
           /\ WindowSize(ngrams[a]) < WindowSize(ngrams[b])
           /\ ngrams[a].start_idx > ngrams[b].start_idx

\* call c returned a record whose text is that of two windows of one size
RecordAmongStarts(c) ==
  \E ngrams \in {build_ngrams(c.args.tokens, c.args.min_gram, c.args.max_gram)} :
     \E i \in 1..Len(c.matches) :
        \E a, b \in Occurrences(ngrams, c.matches[i].ngram) :
           /\ WindowSize(ngrams[a]) = WindowSize(ngrams[b])
           /\ ngrams[a].start_idx < ngrams[b].start_idx

\* two calls: one with a text repeated in windows of different sizes, one
\* with a text repeated in windows of one size
C24_Witness ==
  /\ Called
  /\ ncalls = 2
  /\ RecordAmongStarts(prev)
  /\ RecordAmongSizes(call)

\* ---------------------------------------------------------------------
\* integrated_ui._build_token_suggestions: the suggestions of the match
\* records folded onto token indices (0-based, as in the code)
\* ---------------------------------------------------------------------

\* _normalize_token
normalize_token(text) == strip(join(findall(lower(text)), <<" ">>))

\* the members of a set of integers in ascending order
Ascending(S) ==
  [r \in 1..Cardinality(S) |-> CHOOSE x \in S : Cardinality({y \in S : y < x}) = r - 1]

\* token_text_to_indices.get(word, [])
TokenTextToIndices(tokens, word) ==
  Ascending({i \in 0..(Len(tokens) - 1) :
               /\ normalize_token(tokens[i + 1].token) # <<>>
               /\ normalize_token(tokens[i + 1].token) = word})

RECURSIVE Concat(_)
Concat(lists) == IF lists = <<>> THEN <<>> ELSE Head(lists) \o Concat(Tail(lists))

\* the token indices one suggestion of a match is folded onto, in the order
\* the loops visit them: the match's own span in pass 1, else every token
\* whose normalized text is a word of the n-gram
Targets(tokens, match) ==
  IF match.pass = 1
    THEN Ascending({idx \in match.token_indices[1]..match.token_indices[2] :
                      idx < Len(tokens)})
    ELSE LET words == split(match.ngram)
         IN  Concat([w \in 1..Len(words) |-> TokenTextToIndices(tokens, words[w])])

\* the innermost loop body keeping the first suggestion of a name as it is
FoldOntoFirstOnly(token_suggestions, idx, suggestion, ngram, pass_num) ==
  LET entries == IF idx \in DOMAIN token_suggestions THEN token_suggestions[idx] ELSE <<>>
      key == lower(suggestion.name)
  IN  IF \E e \in 1..Len(entries) : entries[e].key = key THEN token_suggestions
      ELSE DictPut(token_suggestions, idx,
                   Append(entries,
                          [key |-> key,
                           value |-> [name |-> suggestion.name, score |-> suggestion.score,
                                      career_score |-> suggestion.career_score,
                                      source_ngrams |-> <<ngram>>,
                                      source_passes |-> <<>>]]))

\* the body of the innermost loop for token index idx; an entry is the
\* dict key with its value, entries keep insertion order
FoldOnto(token_suggestions, idx, suggestion, ngram, pass_num) ==
  LET entries == IF idx \in DOMAIN token_suggestions THEN token_suggestions[idx] ELSE <<>>
      key == lower(suggestion.name)
      held == {e \in 1..Len(entries) : entries[e].key = key}
      created == [key |-> key,
                  value |-> [name |-> suggestion.name, score |-> suggestion.score,
                             career_score |-> suggestion.career_score,
                             source_ngrams |-> <<ngram>>,
                             source_passes |-> IF pass_num = 1 THEN <<>> ELSE <<pass_num>>]]
      updated(existing) ==
        LET ngrams == IF InList(ngram, existing.source_ngrams) THEN existing.source_ngrams
                      ELSE Append(existing.source_ngrams, ngram)
            passes == IF pass_num = 1 \/ InList(pass_num, existing.source_passes)
                      THEN existing.source_passes
                      ELSE Append(existing.source_passes, pass_num)
            better == suggestion.career_score > existing.career_score
        IN  [name |-> IF better THEN suggestion.name ELSE existing.name,
             score |-> IF better THEN suggestion.score ELSE existing.score,
             career_score |-> IF better THEN suggestion.career_score
                              ELSE existing.career_score,
             source_ngrams |-> ngrams, source_passes |-> passes]
  IN  DictPut(token_suggestions, idx,
              IF held = {} THEN Append(entries, created)
              ELSE [e \in 1..Len(entries) |->
                      IF e \in held THEN [entries[e] EXCEPT !.value = updated(@)]
                      ELSE entries[e]])

RECURSIVE FoldTargets(_, _, _, _, _)
FoldTargets(token_suggestions, targets, suggestion, ngram, pass_num) ==
  IF targets = <<>> THEN token_suggestions
  ELSE FoldTargets(FoldOnto(token_suggestions, Head(targets), suggestion, ngram, pass_num),
                   Tail(targets), suggestion, ngram, pass_num)

\* for suggestion in suggestions_list, skipping suggestions without a name
RECURSIVE FoldSuggestions(_, _, _, _)
FoldSuggestions(token_suggestions, tokens, match, suggestions) ==
  IF suggestions = <<>> THEN token_suggestions
  ELSE FoldSuggestions(
         IF Head(suggestions).name = <<>> THEN token_suggestions
         ELSE FoldTargets(token_suggestions, Targets(tokens, match), Head(suggestions),
                          match.ngram, match.pass),
         tokens, match, Tail(suggestions))

\* for match in matches, skipping matches with fewer than two indices
RECURSIVE FoldMatches(_, _, _)
FoldMatches(token_suggestions, tokens, matches) ==
  IF matches = <<>> THEN token_suggestions
  ELSE FoldMatches(
         IF Len(Head(matches).token_indices) < 2 THEN token_suggestions
         ELSE FoldSuggestions(token_suggestions, tokens, Head(matches),
                              Head(matches).suggestions),
         tokens, Tail(matches))

\* sorted(values, key=(career_score or 0, score or 0), reverse=True) per index
build_token_suggestions(tokens, matches) ==
  LET token_suggestions == FoldMatches(EmptyDict, tokens, matches)
  IN  [idx \in DOMAIN token_suggestions |->
         LET values == [e \in 1..Len(token_suggestions[idx]) |->
                          token_suggestions[idx][e].value]
         IN  SortDescByKeys(values,
                            [e \in 1..Len(values) |->
                               <<values[e].career_score, values[e].score>>])]

UiSuggestion(name, score, career_score) ==
  [name |-> name, score |-> score, career_score |-> career_score]

UiMatch(pass_num, token_indices, ngram, suggestions) ==
  [pass |-> pass_num, token_indices |-> token_indices, ngram |-> ngram,
   suggestions |-> suggestions]

\* match records of two passes: one player under three spellings and with
\* different career scores, a suggestion without a name, a record with a
\* single index
UiMatches ==
  {UiMatch(1, <<0, 0>>, <<"m","e","s","s","i">>, <<UiSuggestion(<<"M","e","s","s","i">>, 100, 90)>>),
   UiMatch(1, <<0, 1>>, <<"m","e","s","s","i"," ","l","e","o">>,
           <<UiSuggestion(<<"M","E","S","S","I">>, 80, 95), UiSuggestion(<<"X","a","v","i">>, 70, 50)>>),
   UiMatch(2, <<0, 0>>, <<"l","e","o"," ","m","e","s","s","i">>,
           <<UiSuggestion(<<"m","e","s","s","i">>, 90, 99), UiSuggestion(<<>>, 60, 10)>>),
   UiMatch(2, <<1, 1>>, <<"m","e","s","s","i">>, <<UiSuggestion(<<"M","e","s","s","i">>, 100, 20)>>),
   UiMatch(1, <<1>>, <<"l","e","o">>, <<UiSuggestion(<<"X","a","v","i">>, 70, 50)>>)}

UiTokens == {Token(<<"M","e","s","s","i">>, 0, 1, 90), Token(<<"L","e","o",",">>, 1, 2, 80), Token(<<"-","-">>, 2, 3, 10)}

\* longest token list and longest match list given to _build_token_suggestions
MaxUiTokens == 2

MaxUiMatches == 3

SuggestInit == TextInit

\* _build_token_suggestions(tokens, matches)
BuildTokenSuggestions ==
  /\ applied = NoApply
  /\ \E tokens \in SeqsUpTo(UiTokens, MaxUiTokens), matches \in SeqsUpTo(UiMatches, MaxUiMatches) :
        applied' = [op |-> "_build_token_suggestions",
                    input |-> [tokens |-> tokens, matches |-> matches],
                    output |-> build_token_suggestions(tokens, matches)]
  /\ UNCHANGED <<matchVars, evalVars, procVars>>

SuggestNext == BuildTokenSuggestions

SuggestSpec == SuggestInit /\ [][SuggestNext]_vars

\* the (match, suggestion) pairs of name `key` that are folded onto idx
Contributing(tokens, matches, idx, key) ==
  {c \in (1..Len(matches)) \X (1..2) :
     /\ c[2] <= Len(matches[c[1]].suggestions)
     /\ Len(matches[c[1]].token_indices) >= 2
     /\ matches[c[1]].suggestions[c[2]].name # <<>>
     /\ lower(matches[c[1]].suggestions[c[2]].name) = key
     /\ InList(idx, Targets(tokens, matches[c[1]]))}

\* C25: for each token index _build_token_suggestions yields at most one
\* suggestion per player name, compared case-insensitively; its career_score
\* is the maximum over the suggestions of that name folded onto the index
\* and its source_ngrams lists every contributing n-gram exactly once
C25_OneSuggestionPerNameMaxScoreAllNgrams ==
  applied.op = "_build_token_suggestions" =>
    \A idx \in DOMAIN applied.output :
       \A a \in 1..Len(applied.output[idx]) :
          LET held == applied.output[idx][a]
              matches == applied.input.matches
              from == Contributing(applied.input.tokens, matches, idx, lower(held.name))
          IN  /\ \A b \in 1..Len(applied.output[idx]) :
                    lower(applied.output[idx][b].name) = lower(held.name) => a = b
              /\ from # {}
              /\ \A c \in from :
                    held.career_score >= matches[c[1]].suggestions[c[2]].career_score
              /\ \E c \in from :
                    held.career_score = matches[c[1]].suggestions[c[2]].career_score
              /\ Range(held.source_ngrams) = {matches[c[1]].ngram : c \in from}
              /\ Len(held.source_ngrams) = Cardinality(Range(held.source_ngrams))

\* a token index that got one name from three suggestions spelled
\* differently, the best of them not the first, out of two n-grams of which
\* one contributed twice
C25_Witness ==
  /\ applied.op = "_build_token_suggestions"
  /\ \E idx \in DOMAIN applied.output :
       \E a \in 1..Len(applied.output[idx]) :
          LET held == applied.output[idx][a]
              matches == applied.input.matches
              from == Contributing(applied.input.tokens, matches, idx, lower(held.name))
          IN  /\ Cardinality(from) = 3
              /\ Cardinality({matches[c[1]].suggestions[c[2]].name : c \in from}) > 1
              /\ Len(held.source_ngrams) = 2
              /\ \E c \in from :
                    /\ c[1] = 1
                    /\ matches[c[1]].suggestions[c[2]].career_score < held.career_score
              /\ Len(applied.output[idx]) > 1

\* C26: no MatchRecord returned by process_pass holds two suggestions with
\* the same player name, compared case-insensitively, whatever dictionary
\* load_players built
C26_NoNameTwiceInRecord ==
  Called =>
    \A r \in 1..Len(call.matches) :
       \A i, j \in 1..Len(call.matches[r].suggestions) :
          lower(call.matches[r].suggestions[i].name)
            = lower(call.matches[r].suggestions[j].name) => i = j

\* C27: every n-gram text build_ngrams produces is in normalized form,
\* normalize(text) = text (words separated by exactly one space, no leading
\* or trailing space), also for tokens whose normalized form is empty or
\* has several words
C27_NgramTextNormalized ==
  applied.op = "build_ngrams" =>
    \A i \in 1..Len(applied.output) :
       normalize(applied.output[i].chunk) = applied.output[i].chunk

\* ---------------------------------------------------------------------
\* The UI server (integrated_ui.py): app.run(threaded=True) serves each
\* request on a thread of its own and the handlers share the module-level
\* STATE dict without a lock.  A step is one read or one assignment of a
\* STATE entry together with the thread-local work before it.
\* ---------------------------------------------------------------------
STAGE2_MIN_GRAM == 1

STAGE2_MAX_GRAM == 3

STAGE2_FUZZY_THRESHOLD == 70

STAGE2_MAX_SUGGESTIONS == 5

\* the players file main loaded into STATE["players_by_name"], STATE["all_names"]
UiDataset == <<ObjectLine(P_bernardo), ObjectLine(P_david), ObjectLine(P_ake)>>

UiLoaded == load_players(UiDataset)

\* the dictionary of the UI and, as scorer, the built-in fallback
UiEnv ==
  [players_by_name |-> UiLoaded.players_by_name, all_names |-> UiLoaded.all_names,
   scorer |-> "fallback", profile |-> NoProfile]

\* \w
UnicodeWordChars ==
  Range(LowerChars) \cup Range(UpperChars) \cup Range(DigitChars) \cup {"_"}

\* re.findall(r"\w+", transcript) made into token dicts: times 0.0, probability 1.0
TokensOf(transcript) ==
  LET token_texts == Runs(transcript, UnicodeWordChars, TRUE, <<>>)
  IN  [i \in 1..Len(token_texts) |-> Token(token_texts[i], 0, 0, 100)]

\* _run_stage2_matching(tokens) with a players file configured
run_stage2_matching(tokens) ==
  build_token_suggestions(
    tokens,
    process_pass(UiEnv,
                 [pass_num |-> 1, tokens |-> tokens, min_gram |-> STAGE2_MIN_GRAM,
                  max_gram |-> STAGE2_MAX_GRAM,
                  fuzzy_threshold |-> STAGE2_FUZZY_THRESHOLD,
                  max_suggestions |-> STAGE2_MAX_SUGGESTIONS],
                 EmptyDict).matches)

\* what a client posts to /api/set-transcript, or what the ASR hears
Transcripts == {<<>>, <<"S","i","l","v","a">>, <<"D","a","v","i","d"," ","S","i","l","v","a",".">>}

\* _run_stage2_matching on the token lists of the transcripts
Stage2Table == [tokens \in {TokensOf(strip(x)) : x \in Transcripts} |-> run_stage2_matching(tokens)]

Serving(t) == threads[t].pc \notin {"idle", "responded"}

Respond(t, handler) ==
  [threads EXCEPT ![t] = [handler |-> handler, pc |-> "responded",
                          tokens |-> <<>>, rows |-> <<>>]]

\* POST /api/set-transcript up to the tokens list: an empty transcript is
\* answered with status 400
SetTranscript(t, transcript) ==
  /\ ~Serving(t)
  /\ LET text == strip(transcript)
     IN  threads' = IF text = <<>> THEN Respond(t, "api_set_transcript")
                    ELSE [threads EXCEPT ![t] = [handler |-> "api_set_transcript",
                                                 pc |-> "store_tokens",
                                                 tokens |-> TokensOf(text),
                                                 rows |-> <<>>]]
  /\ UNCHANGED <<matchVars, evalVars, fnVars, run, chain, UiState>>

\* POST /api/run-asr up to the tokens list: the ASR (or the dummy
\* transcript) gives a transcript, or an exception is answered with 500
RunAsr(t, transcript, failed) ==
  /\ ~Serving(t)
  /\ threads' = IF failed THEN Respond(t, "api_run_asr")
                ELSE [threads EXCEPT ![t] = [handler |-> "api_run_asr",
                                             pc |-> "store_tokens",
                                             tokens |-> TokensOf(strip(transcript)),
                                             rows |-> <<>>]]
  /\ UNCHANGED <<matchVars, evalVars, fnVars, run, chain, UiState>>

\* STATE["tokens"] = tokens
StoreTokens(t) ==
  /\ threads[t].pc = "store_tokens"
  /\ UiState' = [UiState EXCEPT !.tokens = threads[t].tokens]
  /\ threads' = [threads EXCEPT ![t].pc = "store_suggestions"]
  /\ UNCHANGED <<matchVars, evalVars, fnVars, run, chain>>

\* STATE["suggestions"] = _run_stage2_matching(tokens), and the response
StoreSuggestions(t) ==
  /\ threads[t].pc = "store_suggestions"
  /\ UiState' = [UiState EXCEPT !.suggestions = Stage2Table[threads[t].tokens]]
  /\ threads' = [threads EXCEPT ![t].pc = "responded"]
  /\ UNCHANGED <<matchVars, evalVars, fnVars, run, chain>>

\* GET /api/tokens: enumerate(STATE["tokens"]) takes the list once
GetTokens(t) ==
  /\ ~Serving(t)
  /\ threads' = [threads EXCEPT ![t] = [handler |-> "api_tokens", pc |-> "iterate",
                                        tokens |-> UiState.tokens, rows |-> <<>>]]
  /\ UNCHANGED <<matchVars, evalVars, fnVars, run, chain, UiState>>

\* one iteration: {**token, "suggestions": STATE["suggestions"].get(idx, [])},
\* or the response after the last token
IterateTokens(t) ==
  /\ threads[t].pc = "iterate"
  /\ LET idx == Len(threads[t].rows)
     IN  threads' =
           IF idx < Len(threads[t].tokens)
             THEN [threads EXCEPT ![t].rows =
                     Append(@, [token |-> threads[t].tokens[idx + 1],
                                suggestions |-> DictGet(UiState.suggestions, idx)])]
             ELSE [threads EXCEPT ![t].pc = "responded"]
  /\ UNCHANGED <<matchVars, evalVars, fnVars, run, chain, UiState>>

UiInit == TextInit

UiNext ==
  \E t \in 1..MaxThreads :
     \/ \E transcript \in Transcripts : SetTranscript(t, transcript)
     \/ \E transcript \in Transcripts, failed \in BOOLEAN : RunAsr(t, transcript, failed)
     \/ StoreTokens(t)
     \/ StoreSuggestions(t)
     \/ GetTokens(t)
     \/ IterateTokens(t)

UiSpec == UiInit /\ [][UiNext]_vars

\* C28: with requests handled concurrently every /api/tokens response pairs
\* the token list with the suggestions computed from that same token list,
\* under any interleaving of /api/run-asr, /api/set-transcript and /api/tokens
C28_TokensPairedWithOwnSuggestions ==
  \A t \in 1..MaxThreads :
     (threads[t].handler = "api_tokens" /\ threads[t].pc = "responded")
     => \A i \in 1..Len(threads[t].rows) :
           threads[t].rows[i].suggestions = DictGet(Stage2Table[threads[t].tokens], i - 1)


\* ------------------------------------------------------------------------
\* pipeline.RuleBasedConditionChecker
\* ------------------------------------------------------------------------
MaxKnowledge == 2

\* attribute dicts of the knowledge base
RuleAttrs ==
  {EmptyDict,
   [k \in {"nationality", "clubs"} |->
      IF k = "nationality" THEN <<"S","p","a","i","n">> ELSE <<<<"B","a","r","c","e","l","o","n","a">>>>],
   [k \in {"nationality"} |-> <<"B","r","a","z","i","l">>]}

RuleKeys == {<<"X","a","v","i">>, <<"P","E","L","E">>}

\* the knowledge argument: items in insertion order, keys distinct
RuleKnowledge ==
  {kb \in SeqsUpTo(RuleKeys \X RuleAttrs, MaxKnowledge) :
      \A i, j \in 1..Len(kb) : i # j => kb[i][1] # kb[j][1]}

RuleNames == SeqsUpTo({<<"X","a","v","i">>, <<"P","e","l","e">>}, MaxKnowledge)

RuleQuestions ==
  {<<"A","r","e"," ","a","l","l"," ","f","r","o","m"," ","S","p","a","i","n","?">>,
   <<"I","s"," ","t","h","e"," ","n","a","t","i","o","n","a","l","i","t","y"," ","o","f"," ","a","l","l"," ","S","p","a","i","n","?">>,
   <<"H","a","v","e"," ","a","l","l"," ","p","l","a","y","e","d"," ","f","o","r"," ","B","a","r","c","e","l","o","n","a","?">>,
   <<"W","h","i","c","h"," ","c","l","u","b","?">>,
   <<"D","i","d"," ","a","l","l"," ","s","c","o","r","e"," ","g","o","a","l","s","?">>,
   <<"I","s"," ","f","o","o","t","b","a","l","l"," ","f","u","n","?">>,
   <<"D","i","d"," ","t","h","e","y"," ","s","c","o","r","e","?">>}

\* {k.lower(): v for k, v in knowledge.items()}
RECURSIVE LowerKeys(_, _)
LowerKeys(d, items) ==
  IF items = <<>> THEN d
  ELSE LowerKeys(DictPut(d, lower(Head(items)[1]), Head(items)[2]), Tail(items))

\* RuleBasedConditionChecker.__init__(knowledge)
RuleBasedConditionChecker(knowledge) == [knowledge |-> LowerKeys(EmptyDict, knowledge)]

\* self.knowledge.get(name.lower()) is None
RuleMissing(self, name) == lower(name) \notin DOMAIN self.knowledge

\* self.knowledge.get(name.lower()), when it is not None
RuleGet(self, name) == self.knowledge[lower(name)]

\* not attrs, for attrs = self.knowledge.get(name.lower())
NotAttrs(self, name) == RuleMissing(self, name) \/ DOMAIN RuleGet(self, name) = {}

RuleOk == Verdict(TRUE, <<"A","l","l"," ","n","a","m","e","s"," ","s","a","t","i","s","f","y"," ","t","h","e"," ","q","u","e","s","t","i","o","n"," ","b","a","s","e","d"," ","o","n"," ","k","n","o","w","l","e","d","g","e",".">>)

\* the loop of the nationality pattern; RuleOk when it runs to its end
RECURSIVE RuleNationalityLoop(_, _, _)
RuleNationalityLoop(self, names, q) ==
  IF names = <<>> THEN RuleOk
  ELSE LET name == Head(names)
           attrs == RuleGet(self, name)
       IN  IF NotAttrs(self, name)
           THEN Verdict(FALSE, <<"M","i","s","s","i","n","g"," ","k","n","o","w","l","e","d","g","e"," ","f","o","r"," ">> \o name \o <<".">>)
           ELSE LET nationality == lower(DictGet(attrs, "nationality"))
                IN  IF nationality # <<>> /\ Contains(nationality, q)
                    THEN RuleNationalityLoop(self, Tail(names), q)
                    ELSE IF Contains(<<"a","r","e">>, q) /\ nationality # <<>> /\ ~Contains(nationality, q)
                    THEN Verdict(FALSE, name \o <<" ","i","s"," ","n","o","t"," ">> \o nationality \o <<".">>)
                    ELSE RuleNationalityLoop(self, Tail(names), q)

\* [c.lower() for c in attrs.get("clubs", [])]
LowerAll(list) == [i \in 1..Len(list) |-> lower(list[i])]

\* the loop of the club pattern; RuleOk when it runs to its end
RECURSIVE RuleClubLoop(_, _, _)
RuleClubLoop(self, names, club) ==
  IF names = <<>> THEN RuleOk
  ELSE LET name == Head(names)
           attrs == RuleGet(self, name)
       IN  IF NotAttrs(self, name)
           THEN Verdict(FALSE, <<"M","i","s","s","i","n","g"," ","k","n","o","w","l","e","d","g","e"," ","f","o","r"," ">> \o name \o <<".">>)
           ELSE IF club # <<>> /\ ~InList(lower(club), LowerAll(DictGet(attrs, "clubs")))
           THEN Verdict(FALSE, name \o <<" ","d","i","d"," ","n","o","t"," ","p","l","a","y"," ","f","o","r"," ">> \o club \o <<".">>)
           ELSE RuleClubLoop(self, Tail(names), club)

\* the club named by the question
RuleClub(q) ==
  strip_chars(strip(IF Contains(<<"p","l","a","y","e","d"," ","f","o","r">>, q)
                    THEN AfterFirst(q, <<"p","l","a","y","e","d"," ","f","o","r">>)
                    ELSE AfterFirst(q, <<"c","l","u","b">>)),
              ClubStripChars)

\* RuleBasedConditionChecker.check(names, question)
RuleBasedConditionChecker_check(self, names, question) ==
  LET q == strip(lower(question))
      national == IF Contains(<<"n","a","t","i","o","n","a","l">>, q) \/ Contains(<<"a","r","e">>, q)
                  THEN RuleNationalityLoop(self, names, q) ELSE RuleOk
      clubs == IF Contains(<<"p","l","a","y","e","d"," ","f","o","r">>, q) \/ Contains(<<"c","l","u","b">>, q)
               THEN RuleClubLoop(self, names, RuleClub(q)) ELSE RuleOk
  IN  IF names = <<>> THEN Verdict(FALSE, <<"N","o"," ","n","a","m","e","s"," ","e","x","t","r","a","c","t","e","d"," ","f","r","o","m"," ","t","r","a","n","s","c","r","i","p","t",".">>)
      ELSE IF ~Contains(<<"a","l","l">>, q)
      THEN Verdict(FALSE, <<"Q","u","e","s","t","i","o","n"," ","m","u","s","t"," ","i","n","c","l","u","d","e"," ","a","n"," ","'","a","l","l","'"," ","c","o","n","s","t","r","a","i","n","t",".">>)
      ELSE IF ~national.ok THEN national
      ELSE clubs

RuleInit == TextInit

\* RuleBasedConditionChecker(knowledge).check(names, question)
RuleCheck ==
  /\ applied = NoApply
  /\ \E knowledge \in RuleKnowledge, names \in RuleNames, question \in RuleQuestions :
        \E self \in {RuleBasedConditionChecker(knowledge)} :
           applied' = [op |-> "RuleBasedConditionChecker.check",
                       input |-> [self |-> self, names |-> names, question |-> question],
                       output |-> RuleBasedConditionChecker_check(self, names, question)]
  /\ UNCHANGED <<matchVars, evalVars, procVars>>

RuleNext == RuleCheck

RuleSpec == RuleInit /\ [][RuleNext]_vars

RuleChecked == applied.op = "RuleBasedConditionChecker.check"

\* every named player has an entry in the knowledge dict
AllNamesKnown(self, names) ==
  \A i \in 1..Len(names) : lower(names[i]) \in DOMAIN self.knowledge

\* C29: RuleBasedConditionChecker.check returns a positive verdict only if
\* every named player has an entry in the knowledge dict, whatever the question
C29_PositiveOnlyIfAllNamesKnown ==
  (RuleChecked /\ applied.output.ok)
  => AllNamesKnown(applied.input.self, applied.input.names)

\* the same for the questions that select the nationality or the club pattern
C29_PatternQuestionsNeedKnowledge ==
  (/\ RuleChecked
   /\ applied.output.ok
   /\ \E w \in {<<"n","a","t","i","o","n","a","l">>, <<"a","r","e">>, <<"p","l","a","y","e","d"," ","f","o","r">>, <<"c","l","u","b">>} :
         Contains(w, strip(lower(applied.input.question))))
  => AllNamesKnown(applied.input.self, applied.input.names)

C29_PatternWitness ==
  /\ RuleChecked
  /\ applied.output.ok
  /\ Len(applied.input.names) = 2
  /\ Contains(<<"p","l","a","y","e","d"," ","f","o","r">>, strip(lower(applied.input.question)))
====
